---- MODULE Spec2Model ----
(***************************************************************************)
(* microtune: the real-time signal path.                                   *)
(*                                                                         *)
(*   CircularBuffer (src/microtune/circular_buffer.py): a fixed-capacity   *)
(*   ring buffer with a lock and a cached read.                            *)
(*   InputStream (src/microtune/audio.py): a capture session writing       *)
(*   bursts into a CircularBuffer from a callback thread, with             *)
(*   reconfiguration under the stream lock.                                *)
(*                                                                         *)
(* Rows are modelled by their serial number in capture/write order (the    *)
(* buffer code never inspects a row's value); 0 is numpy's zero.  Python's *)
(* None is the empty sequence <<>>, a present value x is <<x>>.            *)
(***************************************************************************)
EXTENDS Integers, Sequences, FiniteSets, TLC

VARIABLES
    buf,        \* the CircularBuffer object (of SpecBuf, or InputStream._buf)
    written,    \* ghost: rows written into buf since construction or clear(), in lock order
    nrows,      \* ghost: rows handed to write() so far (the next row's serial is nrows + 1)
    block,      \* SpecBuf: holder of CircularBuffer._lock (<<>> when free)
    bpc,        \* SpecBuf: each thread's position inside read / write / clear
    barg,       \* SpecBuf: the block a thread is writing
    bret,       \* SpecBuf: the array a thread's last read() returned, as it reads now
    bview,      \* SpecBuf: whether that array is a view of the buffer's current array
    bfresh,     \* ghost: whether no write() or clear() ran since that read() returned
    haltWaits,  \* SpecStream: whether the host API's stop/close joins an in-flight callback
    slock,      \* SpecStream: holder of InputStream._lock (<<>> when free)
    sess,       \* SpecStream: InputStream._stream, the live capture session
    mpc,        \* SpecStream: control thread's position inside start/stop/close/setters
    mloc,       \* SpecStream: control thread's locals (kw, settings, needs_start, entry snapshot)
    rpc,        \* SpecStream: analysis thread's position inside read()
    rret,       \* SpecStream: the array the analysis thread's last read() returned
    rview,      \* SpecStream: whether that array is a view of the buffer's current array
    cb,         \* SpecStream: per session, the callback thread's position and chunk
    captured,   \* ghost: captured[n] is the session that delivered row n
    gh,         \* ghost: counts of calls, sessions and buffers, the session the buffer was
                \* built for, rows captured before the last stop(), stopped-and-not-restarted,
                \* what the last stop() or close() returned with
    clock,      \* SpecClock: the Clock object (_state, _t_start, _t_stop)
    ctime,      \* SpecClock: what the clock's time function returns when called now
    cout,       \* SpecClock: the last call on the clock: its number, name and outcome
    pe,         \* SpecPitch: the PitchEstimator object
    pblk,       \* SpecPitch: the Block of the last process() call, as process() left it
    ptick,      \* SpecPitch: blocks processed so far (the last block's timestamp)
    ie,         \* SpecInton: the IntonationEstimator object
    iblk,       \* SpecInton: the Block of the last process() call, as process() left it
    ipre,       \* ghost: the length of note_buf when the last process() call began
    itick,      \* SpecInton: blocks processed so far
    mw,         \* SpecDriver: the MainWindow object (_processing, _block_counter, block)
    dlog,       \* ghost: what the last timer tick did: the read's length, the calls made
                \* in order, whether an exception left process()
    dtick,      \* SpecDriver: timer ticks so far
    sarg,       \* SpecScale: the dictionary handed to Scale.from_dict
    sres,       \* SpecScale: what the call returned or that it raised (<<>> before it)
    wst,        \* SpecObserve: the thread inside write(): its block, the statements of
                \* _write it has run, the buffer as the call found it
    obs         \* SpecObserve: the thread evaluating len(), shape or full without the
                \* lock: its position, what it read so far, the write() it ran inside

bufVars == <<buf, written, nrows>>
bthreadVars == <<block, bpc, barg, bret, bview, bfresh>>
streamVars == <<haltWaits, slock, sess, mpc, mloc, rpc, rret, rview, cb, captured, gh>>
clockVars == <<clock, ctime, cout>>
pitchVars == <<pe, pblk, ptick>>
intonVars == <<ie, iblk, ipre, itick>>
driverVars == <<mw, dlog, dtick>>
scaleVars == <<sarg, sres>>
observeVars == <<wst, obs>>
toolVars == <<clockVars, pitchVars, intonVars, driverVars, scaleVars, observeVars>>
vars == <<buf, written, nrows, block, bpc, barg, bret, bview, bfresh,
          haltWaits, slock, sess, mpc, mloc, rpc, rret, rview, cb, captured, gh,
          clock, ctime, cout, pe, pblk, ptick, ie, iblk, ipre, itick,
          mw, dlog, dtick, sarg, sres, wst, obs>>

----------------------------------------------------------------------------
(* Bounds of the model *)

MaxCap == 3        \* largest buffer capacity explored
MaxChunk == 4      \* longest block handed to CircularBuffer.write
MaxRows == 6       \* rows written in one behaviour of SpecBuf

None == <<>>
Some(x) == <<x>>
Min(a, b) == IF a <= b THEN a ELSE b

(* the serials n+1 .. n+len, the rows of one block *)
Rows(n, len) == [i \in 1..len |-> n + i]

(* the last k elements of s (all of s when it is shorter): s[-k:] for k > 0 *)
LastRows(s, k) == SubSeq(s, Len(s) - Min(k, Len(s)) + 1, Len(s))

----------------------------------------------------------------------------
(* CircularBuffer *)

(* __init__: np.zeros, or np.full with the fill value; head 0, not full, no cache *)
CircularBuffer_init(maxlen, width, fill_value) ==
    [ arr    |-> [i \in 1..maxlen |-> IF fill_value = None THEN 0 ELSE fill_value[1]],
      width  |-> width,
      fill   |-> fill_value,
      head   |-> 0,
      full   |-> FALSE,
      cached |-> None ]

(* np.roll(arr, -head, axis=0): element i of the result is arr[(i + head) mod n] *)
roll_left(arr, head) ==
    [i \in 1..Len(arr) |-> arr[((i - 1 + head) % Len(arr)) + 1]]

(* a faulty _read: a partially filled buffer reads as the whole array *)
CircularBuffer__read_unsliced(b) ==
    IF b.full
    THEN IF b.head = 0 THEN b.arr ELSE roll_left(b.arr, b.head)
    ELSE b.arr

(* _read *)
CircularBuffer__read(b) ==
    IF b.full
    THEN IF b.head = 0 THEN b.arr ELSE roll_left(b.arr, b.head)
    ELSE IF b.fill = None THEN SubSeq(b.arr, 1, b.head) ELSE b.arr

(* _read, lines 171-172: of a buffer that is not full and has no fill value *)
(* the array returned is self._arr[:self._head], a numpy view that shares   *)
(* the memory of self._arr; every other branch builds a new array           *)
read_is_view(b) == ~b.full /\ b.fill = None

(* what a view arr[:k] reads as, given the current array *)
view_of(arr, k) == SubSeq(arr, 1, k)

(* a faulty _write: the wrap-around write forgets the part before index 0 *)
CircularBuffer__write_nowrap(b, blk) ==
    LET blocklen == Len(blk)
        maxlen   == Len(b.arr)
        free     == maxlen - b.head
        new_head == blocklen - free
    IN  IF blocklen >= maxlen
        THEN [b EXCEPT !.arr = SubSeq(blk, blocklen - maxlen + 1, blocklen),
                       !.head = 0, !.full = TRUE]
        ELSE IF blocklen <= free
        THEN LET h == b.head + blocklen
             IN  [b EXCEPT !.arr = [i \in 1..maxlen |->
                                      IF i > b.head /\ i <= h THEN blk[i - b.head] ELSE b.arr[i]],
                           !.head = IF h = maxlen THEN 0 ELSE h,
                           !.full = IF h = maxlen THEN TRUE ELSE b.full]
        ELSE [b EXCEPT !.arr = [i \in 1..maxlen |->
                                  IF i > b.head THEN blk[i - b.head] ELSE b.arr[i]],
                       !.head = new_head, !.full = TRUE]

(* a faulty _write: a chunk that ends exactly at the last row leaves the     *)
(* head at the capacity, without wrapping to 0 and marking the buffer full  *)
CircularBuffer__write_unwrapped(b, blk) ==
    LET blocklen == Len(blk)
        maxlen   == Len(b.arr)
        free     == maxlen - b.head
        new_head == blocklen - free
    IN  IF blocklen >= maxlen
        THEN [b EXCEPT !.arr = SubSeq(blk, blocklen - maxlen + 1, blocklen),
                       !.head = 0, !.full = TRUE]
        ELSE IF blocklen <= free
        THEN LET h == b.head + blocklen
             IN  [b EXCEPT !.arr = [i \in 1..maxlen |->
                                      IF i > b.head /\ i <= h THEN blk[i - b.head] ELSE b.arr[i]],
                           !.head = h]
        ELSE [b EXCEPT !.arr = [i \in 1..maxlen |->
                                  IF i > b.head THEN blk[i - b.head]
                                  ELSE IF i <= new_head THEN blk[free + i]
                                  ELSE b.arr[i]],
                       !.head = new_head, !.full = TRUE]

(* _write, lines 192, 196, 207-208: the assignments go into self._arr in     *)
(* place and self._cached is not assigned; a cached array that is the view   *)
(* self._arr[:k] of line 173 reads the first k rows of the array as written  *)
cached_after_write(b, arr) ==
    IF b.cached # None /\ read_is_view(b)
    THEN Some(view_of(arr, Len(b.cached[1])))
    ELSE b.cached

(* _write *)
CircularBuffer__write(b, blk) ==
    LET blocklen == Len(blk)
        maxlen   == Len(b.arr)
        free     == maxlen - b.head
        new_head == blocklen - free
        tail     == SubSeq(blk, blocklen - maxlen + 1, blocklen)
        h        == b.head + blocklen
        appended == [i \in 1..maxlen |->
                       IF i > b.head /\ i <= h THEN blk[i - b.head] ELSE b.arr[i]]
        wrapped  == [i \in 1..maxlen |->
                       IF i > b.head THEN blk[i - b.head]
                       ELSE IF i <= new_head THEN blk[free + i]
                       ELSE b.arr[i]]
    IN  IF blocklen >= maxlen
        THEN [b EXCEPT !.arr = tail, !.head = 0, !.full = TRUE,
                       !.cached = cached_after_write(b, tail)]
        ELSE IF blocklen <= free
        THEN [b EXCEPT !.arr = appended,
                       !.head = IF h = maxlen THEN 0 ELSE h,
                       !.full = IF h = maxlen THEN TRUE ELSE b.full,
                       !.cached = cached_after_write(b, appended)]
        ELSE [b EXCEPT !.arr = wrapped, !.head = new_head, !.full = TRUE,
                       !.cached = cached_after_write(b, wrapped)]

(* a faulty write: the cache survives the write *)
write_invalidate_skip(b) == b

(* write, line 131: self._cached = None *)
write_invalidate(b) == [b EXCEPT !.cached = None]

(* a faulty read: reading consumes the rows, as a FIFO would *)
read_fill_consuming(b) ==
    [b EXCEPT !.cached = Some(CircularBuffer__read(b)), !.head = 0, !.full = FALSE]

(* read, lines 120-121: fill the cache when it is empty *)
read_fill(b) == IF b.cached = None THEN [b EXCEPT !.cached = Some(CircularBuffer__read(b))] ELSE b

(* read(): the buffer afterwards; the array returned is its cached[1] *)
CircularBuffer_read(b) == read_fill(b)

(* write() *)
CircularBuffer_write(b, blk) == write_invalidate(CircularBuffer__write(b, blk))

(* a faulty clear: the full flag survives *)
CircularBuffer_clear_keepfull(b) ==
    [b EXCEPT !.arr = [i \in 1..Len(b.arr) |-> IF b.fill = None THEN 0 ELSE b.fill[1]],
              !.head = 0, !.cached = None]

(* clear(): a new zero / fill array, head 0, not full, cache dropped *)
CircularBuffer_clear(b) ==
    [b EXCEPT !.arr = [i \in 1..Len(b.arr) |-> IF b.fill = None THEN 0 ELSE b.fill[1]],
              !.head = 0, !.full = FALSE, !.cached = None]

(* __len__ *)
CircularBuffer_len(b) == IF b.full \/ b.fill # None THEN Len(b.arr) ELSE b.head

----------------------------------------------------------------------------
(* SpecBuf: threads calling read(), write() and clear() on one CircularBuffer. *)
(* `with self._lock` is an acquire step, the statements of the body, and a     *)
(* release that happens with the body's last statement.                        *)

Writers == {"w"}          \* threads calling write() and clear()
Readers == {"r1", "r2"}   \* threads calling read()
Threads == Writers \cup Readers

(* the stream's variables while the stream is not exercised *)
StreamUnused ==
    /\ haltWaits = FALSE /\ slock = None /\ sess = None /\ mpc = "idle" /\ mloc = None
    /\ rpc = "idle" /\ rret = None /\ rview = FALSE
    /\ cb = None /\ captured = None /\ gh = None

(* the clock's variables while the clock is not exercised *)
ClockUnused == clock = None /\ ctime = 0 /\ cout = None

(* the pitch estimator's variables while it is not exercised *)
PitchUnused == pe = None /\ pblk = None /\ ptick = 0

(* the intonation estimator's variables while it is not exercised *)
IntonUnused == ie = None /\ iblk = None /\ ipre = 0 /\ itick = 0

(* no MainWindow *)
DriverUnused == mw = None /\ dlog = None /\ dtick = 0

(* no Scale.from_dict call *)
ScaleUnused == sarg = None /\ sres = None

(* no thread observing a write() statement by statement *)
ObserveUnused == wst = None /\ obs = None

ToolsUnused ==
    ClockUnused /\ PitchUnused /\ IntonUnused /\ DriverUnused /\ ScaleUnused /\ ObserveUnused

InitBuf ==
    /\ \E maxlen \in 1..MaxCap, fill_value \in {None, Some(0)} :
          buf = CircularBuffer_init(maxlen, 1, fill_value)
    /\ written = <<>>
    /\ nrows = 0
    /\ block = None
    /\ bpc = [t \in Threads |-> "idle"]
    /\ barg = [t \in Threads |-> <<>>]
    /\ bret = [t \in Threads |-> None]
    /\ bview = [t \in Threads |-> FALSE]
    /\ bfresh = [t \in Threads |-> FALSE]
    /\ StreamUnused
    /\ ToolsUnused

(* write(), line 129: take the lock; the caller's block has 0..MaxChunk rows *)
B_WriteAcquire(t) ==
    /\ bpc[t] = "idle" /\ block = None
    /\ \E len \in 0..MaxChunk :
          /\ nrows + len <= MaxRows
          /\ barg' = [barg EXCEPT ![t] = Rows(nrows, len)]
          /\ nrows' = nrows + len
    /\ block' = Some(t)
    /\ bpc' = [bpc EXCEPT ![t] = "w_in"]
    /\ UNCHANGED <<buf, written, bret, bview, bfresh>>
    /\ UNCHANGED <<streamVars, toolVars>>

(* write(), line 130: self._write(block).  _write assigns into self._arr in *)
(* place, so an array that is a view of it reads differently afterwards    *)
B_Write(t) ==
    /\ bpc[t] = "w_in"
    /\ buf' = CircularBuffer__write(buf, barg[t])
    /\ written' = written \o barg[t]
    /\ bret' = [u \in Threads |->
                  IF bview[u] THEN Some(view_of(buf'.arr, Len(bret[u][1]))) ELSE bret[u]]
    /\ bfresh' = [u \in Threads |-> FALSE]
    /\ bpc' = [bpc EXCEPT ![t] = "w_drop"]
    /\ UNCHANGED <<nrows, block, barg, bview>>
    /\ UNCHANGED <<streamVars, toolVars>>

(* write(), line 131 and the end of the with block *)
B_WriteRelease(t) ==
    /\ bpc[t] = "w_drop"
    /\ buf' = write_invalidate(buf)
    /\ block' = None
    /\ bpc' = [bpc EXCEPT ![t] = "idle"]
    /\ barg' = [barg EXCEPT ![t] = <<>>]
    /\ UNCHANGED <<written, nrows, bret, bview, bfresh>>
    /\ UNCHANGED <<streamVars, toolVars>>

(* read(), line 119 *)
B_ReadAcquire(t) ==
    /\ bpc[t] = "idle" /\ block = None
    /\ block' = Some(t)
    /\ bpc' = [bpc EXCEPT ![t] = "r_in"]
    /\ UNCHANGED <<buf, written, nrows, barg, bret, bview, bfresh>>
    /\ UNCHANGED <<streamVars, toolVars>>

(* read(), lines 120-121 *)
B_ReadFill(t) ==
    /\ bpc[t] = "r_in"
    /\ buf' = read_fill(buf)
    /\ bpc' = [bpc EXCEPT ![t] = "r_ret"]
    /\ UNCHANGED <<written, nrows, block, barg, bret, bview, bfresh>>
    /\ UNCHANGED <<streamVars, toolVars>>

(* read(), line 122 and the end of the with block *)
B_ReadReturn(t) ==
    /\ bpc[t] = "r_ret"
    /\ bret' = [bret EXCEPT ![t] = buf.cached]
    /\ bview' = [bview EXCEPT ![t] = read_is_view(buf)]
    /\ bfresh' = [bfresh EXCEPT ![t] = TRUE]
    /\ block' = None
    /\ bpc' = [bpc EXCEPT ![t] = "idle"]
    /\ UNCHANGED <<buf, written, nrows, barg>>
    /\ UNCHANGED <<streamVars, toolVars>>

(* clear(), line 146 *)
B_ClearAcquire(t) ==
    /\ bpc[t] = "idle" /\ block = None
    /\ block' = Some(t)
    /\ bpc' = [bpc EXCEPT ![t] = "c_in"]
    /\ UNCHANGED <<buf, written, nrows, barg, bret, bview, bfresh>>
    /\ UNCHANGED <<streamVars, toolVars>>

(* clear(), lines 148-155 and the end of the with block.  self._arr becomes *)
(* a new array: views of the old one keep what they hold and are views of   *)
(* the buffer's array no longer                                             *)
B_Clear(t) ==
    /\ bpc[t] = "c_in"
    /\ buf' = CircularBuffer_clear(buf)
    /\ written' = <<>>
    /\ bview' = [u \in Threads |-> FALSE]
    /\ bfresh' = [u \in Threads |-> FALSE]
    /\ block' = None
    /\ bpc' = [bpc EXCEPT ![t] = "idle"]
    /\ UNCHANGED <<nrows, barg, bret>>
    /\ UNCHANGED <<streamVars, toolVars>>

NextBuf ==
    \/ \E t \in Writers : B_WriteAcquire(t)
    \/ \E t \in Writers : B_Write(t)
    \/ \E t \in Writers : B_WriteRelease(t)
    \/ \E t \in Readers : B_ReadAcquire(t)
    \/ \E t \in Readers : B_ReadFill(t)
    \/ \E t \in Readers : B_ReadReturn(t)
    \/ \E t \in Writers : B_ClearAcquire(t)
    \/ \E t \in Writers : B_Clear(t)

SpecBuf == InitBuf /\ [][NextBuf]_vars

----------------------------------------------------------------------------
(* InputStream.  Three kinds of thread touch it: the control thread ("main":  *)
(* start, stop, close, the property setters), the analysis thread ("rd":      *)
(* read) and, per capture session, the audio subsystem's callback thread      *)
(* ("cb": _write).  The capture session itself (sd.InputStream) is an         *)
(* external collaborator; of its stop()/close() the source fixes only the     *)
(* call, made with the stream lock held.  Whether that call joins a callback  *)
(* that is already running depends on the host audio API, so both outcomes    *)
(* are explored: haltWaits is chosen in Init and never changes.               *)

MaxOps == 2        \* control operations (start/stop/close/setters) in one behaviour
MaxSamples == 3    \* rows the capture sessions deliver in one behaviour
MaxBurst == 2      \* longest chunk one callback delivers
MaxBufsize == 2    \* largest bufsize explored

Devices == {0, 1}
ChannelCounts == {1, 2}
SampleRates == {44, 48}
BurstSizes == {0, 2}
Sessions == 1..(MaxOps + 1)

Main == <<"main", 0>>
Rd == <<"rd", 0>>
Cb(sid) == <<"cb", sid>>

IdleCb == [pc |-> "idle", chunk |-> <<>>, ch |-> 0]
IdleLoc == [op |-> "", kw |-> None, settings |-> None, needs_start |-> FALSE, pre |-> None]

(* sd.InputStream from settings: a new, open, inactive session *)
NewSession(settings, id) ==
    [ id |-> id,
      device |-> settings.device, channels |-> settings.channels,
      samplerate |-> settings.samplerate, blocksize |-> settings.blocksize,
      callback |-> settings.callback,
      active |-> FALSE, closed |-> FALSE ]

(* self._stream.start(): fails on a closed session, which then stays closed *)
SessStart(s) == IF s.closed THEN s ELSE [s EXCEPT !.active = TRUE]
(* self._stream.stop(): quiet when already stopped or closed *)
SessStop(s) == [s EXCEPT !.active = FALSE]
(* a faulty close(): closing a closed session opens it *)
SessClose_toggle(s) == [s EXCEPT !.active = FALSE, !.closed = ~@]

(* self._stream.close(): quiet when already closed *)
SessClose(s) == [s EXCEPT !.active = FALSE, !.closed = TRUE]

(* whether a stop()/close() of session s returns now *)
HaltReturns(s) == haltWaits => cb[s.id].pc = "idle"

(* numpy assignment arr[a:b] = data: data of ch columns fits rows of width   *)
(* columns when the counts agree or data has one column (broadcast)          *)
Broadcastable(ch, width) == ch = width \/ ch = 1

(* the chunk lengths a session of this blocksize delivers (0: any length) *)
BurstLens(blocksize) == IF blocksize = 0 THEN 1..MaxBurst ELSE {blocksize}

(* _reinit, lines 271-281: the live settings with the request merged in *)
reinit_settings(s, kw) ==
    LET live == [device |-> s.device, blocksize |-> s.blocksize,
                 channels |-> s.channels, samplerate |-> s.samplerate,
                 callback |-> "_write"]
    IN  IF kw = None THEN live
        ELSE IF kw[1].key = "device" THEN [live EXCEPT !.device = kw[1].val]
        ELSE IF kw[1].key = "channels" THEN [live EXCEPT !.channels = kw[1].val]
        ELSE IF kw[1].key = "samplerate" THEN [live EXCEPT !.samplerate = kw[1].val]
        ELSE [live EXCEPT !.blocksize = kw[1].val]

(* a faulty buffer replacement: the fresh buffer keeps the old row width *)
reinit_buffer_oldwidth(b, s) == CircularBuffer_init(Len(b.arr), b.width, Some(0))

(* _reinit, lines 285-287: a fresh zero-filled buffer of the old bufsize *)
reinit_buffer(b, s) == CircularBuffer_init(Len(b.arr), s.channels, Some(0))

(* a faulty restart: the new session is never started *)
reinit_restart_never(s, needs_start) == s

(* _reinit, lines 288-289 *)
reinit_restart(s, needs_start) == IF needs_start THEN SessStart(s) ELSE s

(* a faulty start(): a closed session is not reopened *)
start_reopens_never(s) == FALSE

(* start(), line 231: if self.closed *)
start_reopens(s) == s.closed

(* the requests of the reconfiguring setters *)
Requests ==
    {[key |-> "device", val |-> d] : d \in Devices}
    \cup {[key |-> "channels", val |-> c] : c \in ChannelCounts}
    \cup {[key |-> "samplerate", val |-> r] : r \in SampleRates}
    \cup {[key |-> "burstsize", val |-> n] : n \in BurstSizes}

Snapshot == [sess |-> sess, bufid |-> gh.bufid, bufsize |-> Len(buf.arr)]

(* ghost: when the control operation that returned last was this one (stop   *)
(* or close), the session and the buffer as that call left them              *)
LastReturn(op) ==
    IF gh.last # None /\ gh.last[1].op = op THEN gh.last ELSE None

InitStream ==
    /\ haltWaits \in BOOLEAN
    /\ \E ch \in ChannelCounts, bufsize \in 1..MaxBufsize :
          /\ sess = NewSession([device |-> 0, channels |-> ch, samplerate |-> 44,
                                blocksize |-> 0, callback |-> "_write"], 1)
          /\ buf = CircularBuffer_init(bufsize, ch, Some(0))
    /\ written = <<>>
    /\ nrows = 0
    /\ slock = None
    /\ mpc = "idle" /\ mloc = IdleLoc
    /\ rpc = "idle" /\ rret = None /\ rview = FALSE
    /\ cb = [sid \in Sessions |-> IdleCb]
    /\ captured = <<>>
    /\ gh = [ops |-> 0, nsess |-> 1, bufid |-> 1, bufsess |-> 1, stopMark |-> 0, quiet |-> FALSE,
             last |-> None]
    /\ block = None
    /\ bpc = [t \in Threads |-> "idle"]
    /\ barg = [t \in Threads |-> <<>>]
    /\ bret = [t \in Threads |-> None]
    /\ bview = [t \in Threads |-> FALSE]
    /\ bfresh = [t \in Threads |-> FALSE]
    /\ ToolsUnused

(* ---- the control thread ---- *)

(* what the control thread leaves alone, but for the reader's view: a new   *)
(* array under self._buf ends the sharing                                   *)
mainRest == <<rpc, rret, cb, captured, haltWaits, nrows, block, bpc, barg, bret, bview, bfresh>>
mainOther == <<mainRest, rview>>

(* with self._lock: the control thread takes the stream lock *)
M_Acquire(from, to) ==
    /\ mpc = from /\ slock = None
    /\ slock' = Some(Main) /\ mpc' = to
    /\ UNCHANGED <<buf, written, sess, mloc, gh>> /\ UNCHANGED <<mainOther, toolVars>>

(* the end of a with block: the control thread releases the stream lock *)
M_Release(from, to) ==
    /\ mpc = from
    /\ slock' = None /\ mpc' = to

(* start(), line 231: reopen first when the session is closed *)
M_Start ==
    /\ mpc = "idle" /\ gh.ops < MaxOps
    /\ mloc' = [IdleLoc EXCEPT !.op = "start", !.pre = Some(Snapshot)]
    /\ mpc' = IF start_reopens(sess) THEN "ri_acq" ELSE "st_acq"
    /\ gh' = [gh EXCEPT !.ops = @ + 1, !.quiet = FALSE, !.last = None]
    /\ UNCHANGED <<buf, written, sess, slock>> /\ UNCHANGED <<mainOther, toolVars>>

(* start(), line 234 *)
M_StartAcquire == M_Acquire("st_acq", "st_in")

(* start(), line 235: self._stream.start() *)
M_StartSession ==
    /\ mpc = "st_in"
    /\ sess' = SessStart(sess)
    /\ mpc' = "st_rel"
    /\ UNCHANGED <<buf, written, slock, mloc, gh>> /\ UNCHANGED <<mainOther, toolVars>>

(* start() returns *)
M_StartRelease ==
    /\ M_Release("st_rel", "idle")
    /\ mloc' = IdleLoc
    /\ UNCHANGED <<buf, written, sess, gh>> /\ UNCHANGED <<mainOther, toolVars>>

(* stop() is called *)
M_Stop ==
    /\ mpc = "idle" /\ gh.ops < MaxOps
    /\ mloc' = [IdleLoc EXCEPT !.op = "stop", !.pre = LastReturn("stop")]
    /\ mpc' = "sp_acq"
    /\ gh' = [gh EXCEPT !.ops = @ + 1, !.last = None]
    /\ UNCHANGED <<buf, written, sess, slock>> /\ UNCHANGED <<mainOther, toolVars>>

(* stop(), line 243 *)
M_StopAcquire == M_Acquire("sp_acq", "sp_halt")

(* stop(), line 244: self._stream.stop() *)
M_StopSession ==
    /\ mpc = "sp_halt"
    /\ HaltReturns(sess)
    /\ sess' = SessStop(sess)
    /\ mpc' = "sp_clear"
    /\ UNCHANGED <<buf, written, slock, mloc, gh>> /\ UNCHANGED <<mainOther, toolVars>>

(* stop(), line 245: self._buf.clear() *)
M_StopClear ==
    /\ mpc = "sp_clear"
    /\ buf' = CircularBuffer_clear(buf)
    /\ written' = <<>>
    /\ gh' = [gh EXCEPT !.stopMark = nrows]
    /\ mpc' = "sp_rel"
    /\ UNCHANGED <<sess, slock, mloc>> /\ UNCHANGED <<mainRest, toolVars>>
    /\ rview' = FALSE

(* stop() returns *)
M_StopRelease ==
    /\ M_Release("sp_rel", "idle")
    /\ mloc' = IdleLoc
    /\ gh' = [gh EXCEPT !.quiet = TRUE, !.last = Some([op |-> "stop", sess |-> sess, buf |-> buf])]
    /\ UNCHANGED <<buf, written, sess>> /\ UNCHANGED <<mainOther, toolVars>>

(* close() is called *)
M_Close ==
    /\ mpc = "idle" /\ gh.ops < MaxOps
    /\ mloc' = [IdleLoc EXCEPT !.op = "close", !.pre = LastReturn("close")]
    /\ mpc' = "cl_acq"
    /\ gh' = [gh EXCEPT !.ops = @ + 1, !.last = None]
    /\ UNCHANGED <<buf, written, sess, slock>> /\ UNCHANGED <<mainOther, toolVars>>

(* close(), line 254 *)
M_CloseAcquire == M_Acquire("cl_acq", "cl_stop")

(* close(), line 255: self._stream.stop() *)
M_CloseStop ==
    /\ mpc = "cl_stop"
    /\ HaltReturns(sess)
    /\ sess' = SessStop(sess)
    /\ mpc' = "cl_close"
    /\ UNCHANGED <<buf, written, slock, mloc, gh>> /\ UNCHANGED <<mainOther, toolVars>>

(* close(), line 256: self._stream.close(), and close() returns *)
M_CloseSession ==
    /\ mpc = "cl_close"
    /\ HaltReturns(sess)
    /\ sess' = SessClose(sess)
    /\ M_Release("cl_close", "idle")
    /\ mloc' = IdleLoc
    /\ gh' = [gh EXCEPT !.last = Some([op |-> "close", sess |-> sess', buf |-> buf])]
    /\ UNCHANGED <<buf, written>> /\ UNCHANGED <<mainOther, toolVars>>

(* the bufsize setter is called with N *)
M_SetBufsize ==
    /\ mpc = "idle" /\ gh.ops < MaxOps
    /\ \E N \in 1..MaxBufsize :
          mloc' = [IdleLoc EXCEPT !.op = "bufsize", !.kw = Some([key |-> "bufsize", val |-> N])]
    /\ mpc' = "bs_acq"
    /\ gh' = [gh EXCEPT !.ops = @ + 1, !.last = None]
    /\ UNCHANGED <<buf, written, sess, slock>> /\ UNCHANGED <<mainOther, toolVars>>

(* bufsize setter, line 161 *)
M_BufsizeAcquire == M_Acquire("bs_acq", "bs_in")

(* bufsize setter, lines 162-163: a new buffer without fill value; the setter returns *)
M_BufsizeReplace ==
    /\ mpc = "bs_in"
    /\ buf' = CircularBuffer_init(mloc.kw[1].val, sess.channels, None)
    /\ written' = <<>>
    /\ gh' = [gh EXCEPT !.bufid = @ + 1, !.bufsess = sess.id]
    /\ M_Release("bs_in", "idle")
    /\ mloc' = IdleLoc
    /\ UNCHANGED <<sess>> /\ UNCHANGED <<mainRest, toolVars>>
    /\ rview' = FALSE

(* a setter of device, channels, samplerate or burstsize calls _reinit(key=val) *)
M_Reconfigure ==
    /\ mpc = "idle" /\ gh.ops < MaxOps
    /\ \E req \in Requests :
          mloc' = [IdleLoc EXCEPT !.op = "reinit", !.kw = Some(req), !.pre = Some(Snapshot)]
    /\ mpc' = "ri_acq"
    /\ gh' = [gh EXCEPT !.ops = @ + 1, !.last = None]
    /\ UNCHANGED <<buf, written, sess, slock>> /\ UNCHANGED <<mainOther, toolVars>>

(* _reinit, line 269 *)
M_ReinitAcquire == M_Acquire("ri_acq", "ri_cap")

(* _reinit, lines 271-282: settings and needs_start from the live session *)
M_ReinitCapture ==
    /\ mpc = "ri_cap"
    /\ mloc' = [mloc EXCEPT !.settings = Some(reinit_settings(sess, mloc.kw)),
                            !.needs_start = sess.active]
    /\ mpc' = "ri_close"
    /\ UNCHANGED <<buf, written, sess, slock, gh>> /\ UNCHANGED <<mainOther, toolVars>>

(* _reinit, line 283: self._stream.close() *)
M_ReinitClose ==
    /\ mpc = "ri_close"
    /\ HaltReturns(sess)
    /\ sess' = SessClose(sess)
    /\ mpc' = "ri_new"
    /\ UNCHANGED <<buf, written, slock, mloc, gh>> /\ UNCHANGED <<mainOther, toolVars>>

(* _reinit, line 284: self._stream = sd.InputStream from settings *)
M_ReinitNewSession ==
    /\ mpc = "ri_new"
    /\ sess' = NewSession(mloc.settings[1], gh.nsess + 1)
    /\ gh' = [gh EXCEPT !.nsess = @ + 1]
    /\ mpc' = "ri_buf"
    /\ UNCHANGED <<buf, written, slock, mloc>> /\ UNCHANGED <<mainOther, toolVars>>

(* _reinit, lines 285-287: self._buf = CircularBuffer(...) *)
M_ReinitNewBuffer ==
    /\ mpc = "ri_buf"
    /\ buf' = reinit_buffer(buf, sess)
    /\ written' = <<>>
    /\ gh' = [gh EXCEPT !.bufid = @ + 1, !.bufsess = sess.id]
    /\ mpc' = "ri_start"
    /\ UNCHANGED <<sess, slock, mloc>> /\ UNCHANGED <<mainRest, toolVars>>
    /\ rview' = FALSE

(* _reinit, lines 288-289 *)
M_ReinitRestart ==
    /\ mpc = "ri_start"
    /\ sess' = reinit_restart(sess, mloc.needs_start)
    /\ mpc' = "ri_rel"
    /\ UNCHANGED <<buf, written, slock, mloc, gh>> /\ UNCHANGED <<mainOther, toolVars>>

(* _reinit returns: to the setter's caller, or into start() at line 233 *)
M_ReinitRelease ==
    /\ M_Release("ri_rel", IF mloc.op = "start" THEN "st_acq" ELSE "idle")
    /\ mloc' = IF mloc.op = "start" THEN mloc ELSE IdleLoc
    /\ UNCHANGED <<buf, written, sess, gh>> /\ UNCHANGED <<mainOther, toolVars>>

(* ---- the analysis thread ---- *)

(* a faulty read(): the buffer is read without taking the stream lock *)
R_Acquire_nolock ==
    /\ rpc = "idle"
    /\ slock' = slock /\ rpc' = "rd_in"
    /\ UNCHANGED <<buf, written, nrows, haltWaits, sess, mpc, mloc, rret, rview, cb, captured, gh>>
    /\ UNCHANGED <<bthreadVars, toolVars>>

(* read(), line 261 *)
R_Acquire ==
    /\ rpc = "idle" /\ slock = None
    /\ slock' = Some(Rd) /\ rpc' = "rd_in"
    /\ UNCHANGED <<buf, written, nrows, haltWaits, sess, mpc, mloc, rret, rview, cb, captured, gh>>
    /\ UNCHANGED <<bthreadVars, toolVars>>

(* read(), line 262: return self._buf.read(); of a buffer that is not full *)
(* and has no fill value the array returned is a view of self._buf._arr    *)
R_Read ==
    /\ rpc = "rd_in"
    /\ buf' = CircularBuffer_read(buf)
    /\ rret' = buf'.cached
    /\ rview' = read_is_view(buf)
    /\ rpc' = "rd_rel"
    /\ UNCHANGED <<written, nrows, haltWaits, slock, sess, mpc, mloc, cb, captured, gh>>
    /\ UNCHANGED <<bthreadVars, toolVars>>

(* read() returns *)
R_Release ==
    /\ rpc = "rd_rel"
    /\ slock' = None /\ rpc' = "idle"
    /\ UNCHANGED <<buf, written, nrows, haltWaits, sess, mpc, mloc, rret, rview, cb, captured, gh>>
    /\ UNCHANGED <<bthreadVars, toolVars>>

(* ---- the callback threads ---- *)

(* the audio subsystem calls _write with a freshly captured chunk *)
Cb_Invoke(sid) ==
    /\ sess.id = sid /\ sess.active
    /\ cb[sid].pc = "idle"
    /\ \E len \in BurstLens(sess.blocksize) :
          /\ nrows + len <= MaxSamples
          /\ cb' = [cb EXCEPT ![sid] = [pc |-> "wait", chunk |-> Rows(nrows, len),
                                        ch |-> sess.channels]]
          /\ captured' = captured \o [i \in 1..len |-> [sid |-> sid, ch |-> sess.channels]]
          /\ nrows' = nrows + len
    /\ UNCHANGED <<buf, written, haltWaits, slock, sess, mpc, mloc, rpc, rret, rview, gh>>
    /\ UNCHANGED <<bthreadVars, toolVars>>

(* _write, line 297 *)
Cb_Acquire(sid) ==
    /\ cb[sid].pc = "wait" /\ slock = None
    /\ slock' = Some(Cb(sid))
    /\ cb' = [cb EXCEPT ![sid].pc = "in"]
    /\ UNCHANGED <<buf, written, nrows, haltWaits, sess, mpc, mloc, rpc, rret, rview, captured, gh>>
    /\ UNCHANGED <<bthreadVars, toolVars>>

(* _write, line 298: self._buf.write(data); a chunk that does not fit the    *)
(* rows raises inside numpy before anything is stored; the callback returns. *)
(* The rows are stored in place, so an array that the analysis thread holds  *)
(* and that is a view of the buffer's array reads them as written            *)
Cb_Write(sid) ==
    /\ cb[sid].pc = "in"
    /\ IF Broadcastable(cb[sid].ch, buf.width)
       THEN /\ buf' = CircularBuffer_write(buf, cb[sid].chunk)
            /\ written' = written \o cb[sid].chunk
            /\ rret' = IF rview THEN Some(view_of(buf'.arr, Len(rret[1]))) ELSE rret
       ELSE UNCHANGED <<buf, written, rret>>
    /\ slock' = None
    /\ cb' = [cb EXCEPT ![sid] = IdleCb]
    /\ UNCHANGED <<nrows, haltWaits, sess, mpc, mloc, rpc, rview, captured, gh>>
    /\ UNCHANGED <<bthreadVars, toolVars>>

(* the steps of calls already made *)
Progress ==
    \/ M_StartAcquire \/ M_StartSession \/ M_StartRelease
    \/ M_StopAcquire \/ M_StopSession \/ M_StopClear \/ M_StopRelease
    \/ M_CloseAcquire \/ M_CloseStop \/ M_CloseSession
    \/ M_BufsizeAcquire \/ M_BufsizeReplace
    \/ M_ReinitAcquire \/ M_ReinitCapture \/ M_ReinitClose \/ M_ReinitNewSession
    \/ M_ReinitNewBuffer \/ M_ReinitRestart \/ M_ReinitRelease
    \/ R_Read \/ R_Release
    \/ \E sid \in Sessions : Cb_Acquire(sid) \/ Cb_Write(sid)

(* the calls the environment makes *)
Calls ==
    \/ M_Start \/ M_Stop \/ M_Close \/ M_SetBufsize \/ M_Reconfigure
    \/ R_Acquire
    \/ \E sid \in Sessions : Cb_Invoke(sid)

NextStream == Progress \/ Calls

SpecStream == InitStream /\ [][NextStream]_vars

----------------------------------------------------------------------------
(* Claims about the CircularBuffer, checked under SpecBuf *)

(* C1: once the writes since construction or the last clear() total at least  *)
(* capacity rows, the buffer reads as exactly capacity rows, the last         *)
(* capacity rows written, oldest first - both as a fresh _read() of the       *)
(* state and as the array a read() call is about to return.                   *)
C1_ReadIsLastCapacityRows ==
    Len(written) >= Len(buf.arr) =>
        /\ CircularBuffer__read(buf) = LastRows(written, Len(buf.arr))
        /\ Len(CircularBuffer__read(buf)) = Len(buf.arr)
        /\ \A t \in Threads :
              bpc[t] = "r_ret" => buf.cached = Some(LastRows(written, Len(buf.arr)))

(* C1 witness: a read() returns from a buffer that has wrapped around *)
C1_Witness ==
    \E t \in Threads :
        /\ bpc[t] = "r_ret"
        /\ buf.full /\ buf.head # 0
        /\ Len(written) > Len(buf.arr)
        /\ Len(buf.arr) >= 2

(* C2: whenever the buffer lock is free or a reader holds it, a set cache      *)
(* equals what a fresh recomputation of the contents returns: no read()        *)
(* that takes the lock after a write() or clear() released it sees stale rows. *)
C2_CacheNeverStale ==
    (block = None \/ \E t \in Threads : bpc[t] \in {"r_in", "r_ret"}) =>
        (buf.cached # None => buf.cached[1] = CircularBuffer__read(buf))

(* C2 witness: the cache was filled again after a write that followed a read *)
C2_Witness ==
    /\ block = None
    /\ buf.cached # None
    /\ \E t \in Threads : bret[t] # None /\ bret[t] # buf.cached /\ bret[t][1] # <<>>

----------------------------------------------------------------------------
(* Claims about the InputStream, checked under SpecStream *)

MainCS == {"ri_cap", "ri_close", "ri_new", "ri_buf", "ri_start", "ri_rel",
           "st_in", "st_rel", "sp_halt", "sp_clear", "sp_rel",
           "cl_stop", "cl_close", "bs_in"}
ReinitCS == {"ri_cap", "ri_close", "ri_new", "ri_buf", "ri_start", "ri_rel"}
ReadCS == {"rd_in", "rd_rel"}
AcquirePcs == {"ri_acq", "st_acq", "sp_acq", "cl_acq", "bs_acq"}

(* the threads inside a critical section of the stream lock *)
InCS ==
    (IF mpc \in MainCS THEN {Main} ELSE {})
    \cup (IF rpc \in ReadCS THEN {Rd} ELSE {})
    \cup {Cb(sid) : sid \in {x \in Sessions : cb[x].pc = "in"}}

(* the captured rows of an array (0 is padding or a cleared slot) *)
Samples(a) == {a[i] : i \in 1..Len(a)} \ {0}

(* the most recently written captured row of a window that is oldest first *)
Newest(a) ==
    IF Samples(a) = {} THEN 0
    ELSE a[CHOOSE i \in 1..Len(a) : a[i] # 0 /\ \A j \in (i + 1)..Len(a) : a[j] = 0]

(* the last capacity rows of the log, padded when the buffer pads *)
Window(b, log) ==
    IF Len(log) >= Len(b.arr) THEN LastRows(log, Len(b.arr))
    ELSE IF b.fill = None THEN log
    ELSE log \o [i \in 1..(Len(b.arr) - Len(log)) |-> b.fill[1]]

Setting(s, key) ==
    CASE key = "device" -> s.device
      [] key = "channels" -> s.channels
      [] key = "samplerate" -> s.samplerate
      [] key = "burstsize" -> s.blocksize

(* C3: at most one thread is inside a critical section of the stream lock   *)
(* (callback write, read, stop's clear, bufsize setter, _reinit), and while  *)
(* the control thread is between the first and the last step of a            *)
(* reconfiguration neither a read nor a callback write is inside its own.    *)
C3_StreamLockSerializes ==
    /\ Cardinality(InCS) <= 1
    /\ InCS # {} => slock = Some(CHOOSE t \in InCS : TRUE)
    /\ mpc \in ReinitCS => (rpc \notin ReadCS /\ \A sid \in Sessions : cb[sid].pc # "in")

(* C3 witness: a reconfiguration has closed the old session and not yet built *)
(* the new one while a callback waits for the lock                            *)
C3_Witness ==
    /\ mpc = "ri_new"
    /\ \E sid \in Sessions : cb[sid].pc = "wait"

(* C4: no operation blocks forever: whenever some call is in progress, some   *)
(* call in progress can take its next step, and the control thread never      *)
(* waits for the stream lock while holding it.                                *)
C4_NoOperationBlocksForever ==
    /\ (mpc # "idle" \/ rpc # "idle" \/ \E sid \in Sessions : cb[sid].pc # "idle")
          => ENABLED Progress
    /\ mpc \in AcquirePcs => slock # Some(Main)

(* C5: whenever the stream lock is free, every captured row in the buffer    *)
(* was delivered by the current capture session.                             *)
C5_BufferHoldsOnlyCurrentSession ==
    slock = None => \A n \in Samples(buf.arr) : captured[n].sid = sess.id

(* C6: whenever the stream lock is free, the buffer's row width is the live  *)
(* session's channel count and the buffer is one that was built for the live *)
(* session (never a new session with the old buffer or the reverse).         *)
C6_BufferMatchesSession ==
    slock = None => (buf.width = sess.channels /\ gh.bufsess = sess.id)

(* C6 witness: the lock is free after a reconfiguration that changed the      *)
(* channel count (an earlier session delivered rows of another width)         *)
C6_Witness ==
    /\ slock = None /\ mpc = "idle"
    /\ buf.width = sess.channels
    /\ \E n \in 1..Len(captured) : captured[n].ch # sess.channels

(* C7, first half: the array a read() returns is the last bufsize rows written *)
(* into the buffer since it was created or cleared, oldest first (padded when  *)
(* fewer were written).                                                        *)
C7_ReadIsWindowOfWrites ==
    rpc = "rd_rel" => rret = Some(Window(buf, written))

(* C7: each read() returns the most recent window, and successive reads never *)
(* go backwards in the capture sequence: the newest row of a read that holds  *)
(* captured rows is not older than the newest row of the read before it.      *)
C7_ReadsNeverGoBackwards ==
    /\ [](rpc = "rd_rel" => rret = Some(Window(buf, written)))
    /\ [][(rpc = "rd_in" /\ rpc' = "rd_rel" /\ rret # None /\ Samples(rret'[1]) # {})
             => Newest(rret'[1]) >= Newest(rret[1])]_vars

(* C8: a read() made after stop() returned and before the next start() holds  *)
(* no captured row, and no read() ever returns a row that was captured before *)
(* the latest stop() cleared the buffer.                                      *)
C8_NoStaleDataAfterStop ==
    rpc = "rd_rel" =>
        /\ gh.quiet => Samples(rret[1]) = {}
        /\ \A n \in Samples(rret[1]) : n > gh.stopMark

(* C9: when start() is about to return, the session is open and active; it is *)
(* a new session when start() found the old one closed, and otherwise the     *)
(* same session with the same buffer.                                         *)
C9_StartReopensThenStarts ==
    mpc = "st_rel" =>
        /\ ~sess.closed /\ sess.active
        /\ IF mloc.pre[1].sess.closed
           THEN sess.id # mloc.pre[1].sess.id
           ELSE sess.id = mloc.pre[1].sess.id /\ gh.bufid = mloc.pre[1].bufid

(* C9 witness: start() returns after reopening a closed session *)
C9_Witness ==
    /\ mpc = "st_rel"
    /\ mloc.pre[1].sess.closed
    /\ sess.active

(* C10: when _reinit is about to return, the new session is open and active   *)
(* exactly if the old one was, the requested setting has the requested value, *)
(* every other setting and the callback are the old session's, and the buffer *)
(* is a fresh one of the old bufsize holding no captured row.                 *)
C10_ReinitChangesOnlyRequest ==
    mpc = "ri_rel" =>
        LET old == mloc.pre[1].sess
            kw  == mloc.kw
        IN  /\ sess.id # old.id /\ ~sess.closed
            /\ sess.active = old.active
            /\ \A key \in {"device", "channels", "samplerate", "burstsize"} :
                  IF kw # None /\ kw[1].key = key
                  THEN Setting(sess, key) = kw[1].val
                  ELSE Setting(sess, key) = Setting(old, key)
            /\ sess.callback = old.callback
            /\ Len(buf.arr) = mloc.pre[1].bufsize
            /\ Samples(buf.arr) = {} /\ written = <<>>
            /\ buf.head = 0 /\ ~buf.full /\ buf.cached = None
            /\ gh.bufid # mloc.pre[1].bufid

(* C10 witness: a setter's _reinit returns, having changed its setting on a   *)
(* session that was active and had delivered rows                             *)
C10_Witness ==
    /\ mpc = "ri_rel" /\ mloc.op = "reinit"
    /\ mloc.pre[1].sess.active /\ sess.active
    /\ Setting(sess, mloc.kw[1].key) # Setting(mloc.pre[1].sess, mloc.kw[1].key)
    /\ \E n \in 1..Len(captured) : captured[n].sid = mloc.pre[1].sess.id

----------------------------------------------------------------------------
(* Further claims about the CircularBuffer, checked under SpecBuf *)

(* n rows followed by the fill value up to capacity *)
Padded(rows, maxlen, fill) == rows \o [i \in 1..(maxlen - Len(rows)) |-> fill]

(* C11: while the rows written since construction or the last clear() are    *)
(* fewer than capacity, a buffer without fill value reads as exactly those   *)
(* rows in write order, a buffer with a fill value reads as capacity rows,   *)
(* the written rows followed by fill values, and len(buffer) is the length   *)
(* of what read() returns - as a fresh _read() and as the array a read()     *)
(* call is about to return.                                                  *)
C11_PartialReadIsWrittenRows ==
    Len(written) < Len(buf.arr) =>
        LET expected == IF buf.fill = None THEN written
                        ELSE Padded(written, Len(buf.arr), buf.fill[1])
        IN  /\ CircularBuffer__read(buf) = expected
            /\ CircularBuffer_len(buf) = Len(CircularBuffer__read(buf))
            /\ \A t \in Threads :
                  bpc[t] = "r_ret" =>
                      (buf.cached = Some(expected) /\ CircularBuffer_len(buf) = Len(buf.cached[1]))

(* C11 witness: a read() returns from a padding buffer of capacity 3 that    *)
(* was cleared and holds two rows since                                     *)
C11_Witness ==
    \E t \in Threads :
        /\ bpc[t] = "r_ret"
        /\ buf.fill # None
        /\ written = <<2, 3>>
        /\ Len(buf.arr) = 3

(* C12: read() is non-destructive and idempotent.  The step that fills the   *)
(* cache leaves the stored rows, head, the full flag, the fill value and the *)
(* capacity as they were and keeps a cache that is already set; the step     *)
(* that returns leaves the buffer as it was and hands out the cached array,  *)
(* which equals the array of every read() that returned with no write() or   *)
(* clear() since.                                                            *)
C12_ReadIsIdempotent ==
    [][\A t \in Readers :
          /\ (bpc[t] = "r_in" /\ bpc'[t] = "r_ret") =>
                /\ buf'.arr = buf.arr /\ Len(buf'.arr) = Len(buf.arr)
                /\ buf'.head = buf.head /\ buf'.full = buf.full /\ buf'.fill = buf.fill
                /\ buf.cached # None => buf'.cached = buf.cached
          /\ (bpc[t] = "r_ret" /\ bpc'[t] = "idle") =>
                /\ buf' = buf
                /\ bret'[t] = buf.cached
                /\ \A u \in Readers : bfresh[u] => bret'[t] = bret[u]
      ]_vars

(* C12 witness: two read() calls returned from a buffer that has wrapped     *)
(* around, with no write() or clear() since the first of them                *)
C12_Witness ==
    /\ block = None
    /\ bfresh["r1"] /\ bfresh["r2"]
    /\ bret["r1"] = bret["r2"] /\ bret["r1"] = buf.cached
    /\ buf.full /\ buf.head # 0 /\ Len(buf.arr) >= 2

(* C13: the array a read() returned is a snapshot: what it holds changes in  *)
(* no step of a write() or clear(), whether the buffer is full or not and    *)
(* pads or not; a thread's array differs after a step only when that step is *)
(* the thread's own next read() returning.                                   *)
C13_ReturnedArrayIsSnapshot ==
    [][\A t \in Threads :
          (bret[t] # None /\ bret'[t] # bret[t]) => (bpc[t] = "r_ret" /\ bpc'[t] = "idle")
      ]_vars

(* what read() returns from a buffer just constructed: nothing, or capacity *)
(* fill values                                                              *)
EmptyRead(b) == IF b.fill = None THEN <<>> ELSE Padded(<<>>, Len(b.arr), b.fill[1])

(* C14: clear() resets the buffer to its freshly constructed state from any  *)
(* state: the step of clear() leaves exactly the buffer __init__ builds for  *)
(* the same capacity, row width and fill value (head 0, not full, no cache), *)
(* which reads as empty or as capacity fill values; and at every later state *)
(* the buffer reads, and reports its length, as a newly constructed buffer   *)
(* that was given the rows written since the clear().                        *)
C14_ClearResetsToFresh ==
    /\ [][\A t \in Writers :
             (bpc[t] = "c_in" /\ bpc'[t] = "idle") =>
                 /\ buf' = CircularBuffer_init(Len(buf.arr), buf.width, buf.fill)
                 /\ buf'.head = 0 /\ ~buf'.full /\ buf'.cached = None
                 /\ Len(buf'.arr) = Len(buf.arr) /\ buf'.fill = buf.fill
                 /\ CircularBuffer_read(buf').cached = Some(EmptyRead(buf))
         ]_vars
    /\ [](LET fresh == CircularBuffer_write(
                           CircularBuffer_init(Len(buf.arr), buf.width, buf.fill), written)
          IN  /\ CircularBuffer__read(buf) = CircularBuffer__read(fresh)
              /\ CircularBuffer_len(buf) = CircularBuffer_len(fresh))

(* C14 witness: a buffer that had been written and read at full length was  *)
(* cleared, and two rows were written since                                  *)
C14_Witness ==
    /\ block = None
    /\ Len(written) = 2 /\ nrows > Len(buf.arr) + 2
    /\ \E t \in Readers : bret[t] # None /\ Len(bret[t][1]) = Len(buf.arr) /\ bret[t][1][1] > 1

----------------------------------------------------------------------------
(* Clock (src/microtune/timing.py).  A clock is a record of _state, _t_start *)
(* and _t_stop; its time function is read as ctime, which only grows.  Each  *)
(* method is an operator from the clock and the time function's value to the *)
(* clock afterwards, whether the call raised, and what it returned.          *)

MaxTime == 3       \* largest value of the time function
MaxCalls == 4      \* calls on the clock in one behaviour

ClockStates == {"READY", "RUNNING", "STOPPED"}

Returned(c, v) == [clock |-> c, raised |-> FALSE, ret |-> v]
Raised(c) == [clock |-> c, raised |-> TRUE, ret |-> None]

(* a faulty start: any state may be started *)
Clock_start_anystate(c, t) ==
    Returned([c EXCEPT !.t_start = Some(t), !.state = "RUNNING"], Some(0))

(* start *)
Clock_start(c, t) ==
    IF c.state # "READY" THEN Raised(c)
    ELSE Returned([c EXCEPT !.t_start = Some(t), !.state = "RUNNING"], Some(0))

(* a faulty stop: the stop time is stored before the state is checked *)
Clock_stop_marks(c, t) ==
    IF c.state # "RUNNING" THEN Raised([c EXCEPT !.t_stop = Some(t)])
    ELSE Returned([c EXCEPT !.t_stop = Some(t), !.state = "STOPPED"], Some(t - c.t_start[1]))

(* stop *)
Clock_stop(c, t) ==
    IF c.state # "RUNNING" THEN Raised(c)
    ELSE Returned([c EXCEPT !.t_stop = Some(t), !.state = "STOPPED"], Some(t - c.t_start[1]))

(* __call__: the elapsed time *)
Clock_call(c, t) ==
    IF c.state # "RUNNING" THEN Raised(c)
    ELSE Returned(c, Some(t - c.t_start[1]))

(* reset: READY with no times, then start() when asked to *)
Clock_reset(c, start, t) ==
    LET ready == [c EXCEPT !.state = "READY", !.t_start = None, !.t_stop = None]
    IN  IF start THEN Clock_start(ready, t) ELSE Returned(ready, None)

(* __init__: reset(start=start) on the new object *)
Clock_init(start, t) ==
    Clock_reset([state |-> "", t_start |-> None, t_stop |-> None], start, t).clock

clockOther == <<bufVars, bthreadVars, streamVars, pitchVars, intonVars, driverVars, scaleVars, observeVars>>

(* the buffer's variables while the buffer is not exercised *)
BufUnused ==
    /\ buf = None /\ written = None /\ nrows = 0
    /\ block = None /\ bpc = None /\ barg = None /\ bret = None
    /\ bview = None /\ bfresh = None

InitClock ==
    /\ ctime = 0
    /\ \E start \in BOOLEAN : clock = Clock_init(start, ctime)
    /\ cout = [n |-> 0, op |-> "init", arg |-> None, raised |-> FALSE, ret |-> None]
    /\ BufUnused
    /\ StreamUnused
    /\ PitchUnused
    /\ IntonUnused
    /\ DriverUnused
    /\ ScaleUnused
    /\ ObserveUnused

(* the outcome r of call number cout.n + 1 *)
ClockCall(op, arg, r) ==
    /\ cout.n < MaxCalls
    /\ clock' = r.clock
    /\ cout' = [n |-> cout.n + 1, op |-> op, arg |-> arg, raised |-> r.raised, ret |-> r.ret]
    /\ UNCHANGED ctime
    /\ UNCHANGED clockOther

K_Start == ClockCall("start", None, Clock_start(clock, ctime))

K_Stop == ClockCall("stop", None, Clock_stop(clock, ctime))

K_Elapsed == ClockCall("elapsed", None, Clock_call(clock, ctime))

K_Reset == \E start \in BOOLEAN : ClockCall("reset", Some(start), Clock_reset(clock, start, ctime))

(* time passes *)
K_Tick ==
    /\ ctime < MaxTime
    /\ ctime' = ctime + 1
    /\ UNCHANGED <<clock, cout>>
    /\ UNCHANGED clockOther

NextClock == K_Start \/ K_Stop \/ K_Elapsed \/ K_Reset \/ K_Tick

SpecClock == InitClock /\ [][NextClock]_vars

----------------------------------------------------------------------------
(* Claims about the Clock, checked under SpecClock *)

(* C15 as stated: once the clock is STOPPED no call moves it to another state *)
C15_StoppedIsTerminal ==
    [][clock.state = "STOPPED" => clock'.state = "STOPPED"]_vars

(* C15, amended: from STOPPED, start(), stop() and the elapsed-time call      *)
(* raise and leave the clock as it is; only reset() leaves STOPPED, for READY *)
(* with no stored times, or for RUNNING when asked to start.                  *)
C15_StoppedLeftOnlyByReset ==
    [][(clock.state = "STOPPED" /\ cout'.n = cout.n + 1) =>
          IF cout'.op = "reset"
          THEN /\ ~cout'.raised
               /\ clock'.state = (IF cout'.arg[1] THEN "RUNNING" ELSE "READY")
               /\ clock'.t_stop = None
               /\ clock'.t_start = (IF cout'.arg[1] THEN Some(ctime) ELSE None)
          ELSE cout'.raised /\ clock' = clock
      ]_vars

(* C15 witness: start() was called on a stopped clock *)
C15_Witness ==
    /\ clock.state = "STOPPED"
    /\ cout.op = "start" /\ cout.raised

(* C16: a call in the wrong state raises and leaves state, start time and    *)
(* stop time as they were (start() unless READY, stop() and the elapsed-time *)
(* call unless RUNNING); in the right state start() moves READY to RUNNING   *)
(* storing the start time, stop() moves RUNNING to STOPPED storing the stop  *)
(* time and returning the elapsed time, and the elapsed-time call returns    *)
(* the elapsed time and changes nothing.                                     *)
C16_WrongStateRaisesAndKeeps ==
    [][cout'.n = cout.n + 1 =>
          /\ cout'.op = "start" =>
                IF clock.state = "READY"
                THEN /\ ~cout'.raised /\ clock'.state = "RUNNING"
                     /\ clock'.t_start = Some(ctime) /\ clock'.t_stop = clock.t_stop
                ELSE cout'.raised /\ clock' = clock
          /\ cout'.op = "stop" =>
                IF clock.state = "RUNNING"
                THEN /\ ~cout'.raised /\ clock'.state = "STOPPED"
                     /\ clock'.t_stop = Some(ctime) /\ clock'.t_start = clock.t_start
                     /\ cout'.ret = Some(ctime - clock.t_start[1])
                ELSE cout'.raised /\ clock' = clock
          /\ cout'.op = "elapsed" =>
                /\ clock' = clock
                /\ IF clock.state = "RUNNING"
                   THEN ~cout'.raised /\ cout'.ret = Some(ctime - clock.t_start[1])
                   ELSE cout'.raised
      ]_vars

(* C16 witness: the elapsed time was asked of a clock that had run for a     *)
(* while and was stopped                                                     *)
C16_Witness ==
    /\ clock.state = "STOPPED"
    /\ cout.op = "elapsed" /\ cout.raised
    /\ clock.t_stop[1] > clock.t_start[1]

----------------------------------------------------------------------------
(* PitchEstimator (src/microtune/estimators.py).  Of a block's normalized    *)
(* difference function dn the selection reads only its local minima (what    *)
(* scipy.signal.find_peaks(-dn, distance=5) returns): a block carries them   *)
(* as a sequence of [ix, dn] in lag order, dn in hundredths.  The quadratic  *)
(* interpolation of peak_to_pitch finds the lag of the smallest interpolated *)
(* difference within interp_half_width of the chosen index: a block carries  *)
(* how far from the index that is (off).  A frequency samplerate / lag is    *)
(* the pair <<samplerate, lag>>, infinite when lag is 0.                     *)

MaxTicks == 2      \* blocks processed in one behaviour
MaxHist == 2       \* largest histlen explored

onset_thresh == 15
offset_thresh_2 == 45
interp_half_width == 10

Max(a, b) == IF a >= b THEN a ELSE b
Abs(x) == IF x >= 0 THEN x ELSE 0 - x
Floor(a, b) == a \div b
Ceil(a, b) == (a + b - 1) \div b

(* the lags, in increasing order, at which one block has its minima         *)
(* (find_peaks keeps minima at least 5 apart), and the dn values a minimum  *)
(* takes                                                                    *)
PeakLags == {<<>>, <<3>>, <<8>>, <<13>>, <<8, 13>>, <<8, 16>>, <<8, 18>>, <<8, 24>>}
DnLevels == {5, 12, 20, 47}
PeakOffsets == {-10, 0}

(* two blocks with three minima: a tone at lag 6, and the same tone decayed *)
(* with a weak minimum below its octave at lag 24                          *)
ThreePeaks ==
    { <<[ix |-> 6, dn |-> 5], [ix |-> 13, dn |-> 47], [ix |-> 24, dn |-> 47]>>,
      <<[ix |-> 6, dn |-> 47], [ix |-> 13, dn |-> 12], [ix |-> 24, dn |-> 5]>> }

(* the minima of the blocks explored *)
Contents ==
    UNION {{[i \in 1..Len(lags) |-> [ix |-> lags[i], dn |-> lv[i]]] :
               lv \in [1..Len(lags) -> DnLevels]} : lags \in PeakLags}
    \cup ThreePeaks

(* a faulty argmin: the last index holding the minimum *)
ArgMin_last(v) == CHOOSE i \in 1..Len(v) : \A j \in 1..Len(v) : v[i] <= v[j] /\ (j > i => v[j] > v[i])

(* the first index of a non-empty sequence of numbers holding its minimum: np.argmin *)
ArgMin(v) == CHOOSE i \in 1..Len(v) : \A j \in 1..Len(v) : v[i] <= v[j] /\ (j < i => v[j] > v[i])

(* a faulty append: the deque grows past maxlen *)
deque_append_unbounded(q, v, maxlen) == Append(q, v)

(* deque(maxlen).append *)
deque_append(q, v, maxlen) ==
    IF maxlen = 0 THEN <<>>
    ELSE IF Len(q) >= maxlen THEN Tail(q) \o <<v>> ELSE Append(q, v)

(* Block.__init__ and the class attributes of Block; dn_score is no attribute *)
(* of a new Block                                                             *)
Block_init(timestamp, minima, off) ==
    [ timestamp |-> timestamp, minima |-> minima, off |-> off,
      tunable |-> FALSE, ix_best |-> 0, pitch |-> <<-1, 1>>, dn_score |-> None ]

(* __init__ and init *)
PitchEstimator_init(samplerate, fmin, fmax, min_thresh, abs_thresh, histlen) ==
    [ samplerate |-> samplerate,
      min_thresh |-> min_thresh, abs_thresh |-> abs_thresh,
      histlen |-> histlen,
      history |-> [ix_best |-> <<>>, dn_score |-> <<>>, pitch |-> <<>>],
      nlags |-> Ceil(samplerate, 40),
      cutoff |-> <<Floor(samplerate, fmax), Ceil(samplerate, fmin)>>,
      onset_flag |-> FALSE, onset_ix |-> 0, onset_t |-> 0, offset_t |-> 0 ]

(* a faulty find_minima: minima outside the search range are kept *)
find_minima_unranged(e, minima, height) ==
    SelectSeq(minima, LAMBDA m : m.dn <= height)

(* find_minima with a height: the minima inside the search range whose dn is *)
(* at most height                                                            *)
find_minima(e, minima, height) ==
    SelectSeq(minima, LAMBDA m : m.ix >= e.cutoff[1] /\ m.ix <= e.cutoff[2] /\ m.dn <= height)

(* onset *)
onset(e, ix, t) ==
    [e EXCEPT !.onset_flag = TRUE, !.onset_ix = ix, !.onset_t = t, !.offset_t = 0]

(* a faulty offset: the histories are not cleared *)
offset_keeping_history(e, t) ==
    [e EXCEPT !.onset_flag = FALSE, !.onset_ix = 0, !.onset_t = 0, !.offset_t = t]

(* offset *)
offset(e, t) ==
    [e EXCEPT !.history = [ix_best |-> <<>>, dn_score |-> <<>>, pitch |-> <<>>],
              !.onset_flag = FALSE, !.onset_ix = 0, !.onset_t = 0, !.offset_t = t]

(* append_history *)
append_history(e, ix_best, pitch, dn_score) ==
    [e EXCEPT !.history =
        [ix_best  |-> deque_append(e.history.ix_best, ix_best, e.histlen),
         dn_score |-> deque_append(e.history.dn_score, dn_score, e.histlen),
         pitch    |-> deque_append(e.history.pitch, pitch, e.histlen)]]

(* np.abs(log_ratio - np.round(log_ratio)) < integer_thresh for log_ratio =  *)
(* log2(a / b): a / b lies strictly between 2^(k - 0.1) and 2^(k + 0.1) for  *)
(* some integer k; 2^0.1 = 1.0717734..., 2^-0.1 = 0.9330329...               *)
near_octave(a, b) ==
    \E k \in 0..5 :
        \/ b * (2^k) * 933033 < a * 1000000 /\ a * 1000000 < b * (2^k) * 1071773
        \/ b * 933033 < a * (2^k) * 1000000 /\ a * (2^k) * 1000000 < b * 1071773

(* the first candidate with dn below thresh, as a sequence of none or one *)
first_below(ixs, thresh) ==
    LET sub == SelectSeq(ixs, LAMBDA m : m.dn < thresh)
    IN  IF sub = <<>> THEN <<>> ELSE <<sub[1]>>

(* a faulty tracking step: the reference lag follows the chosen lag *)
select_tracking_retarget(e, b, ixs) ==
    LET sub    == first_below(ixs, e.abs_thresh)
        yin    == IF sub # <<>> THEN sub[1] ELSE ixs[ArgMin([i \in 1..Len(ixs) |-> ixs[i].dn])]
        ix_ref == e.onset_ix
        near   == ixs[ArgMin([i \in 1..Len(ixs) |-> Abs(ix_ref - ixs[i].ix)])]
        b1(ix) == [b EXCEPT !.ix_best = ix, !.tunable = TRUE]
        e1(ix) == [e EXCEPT !.onset_ix = ix]
    IN  IF near_octave(yin.ix, ix_ref)
        THEN IF near.dn < offset_thresh_2
             THEN [pe |-> e1(near.ix), blk |-> b1(near.ix)]
             ELSE [pe |-> offset(e, b.timestamp), blk |-> b1(yin.ix)]
        ELSE [pe |-> e1(yin.ix), blk |-> b1(yin.ix)]

(* select_lag_0, lines 304-344: onset found, pitch detection in progress *)
select_tracking(e, b, ixs) ==
    LET sub    == first_below(ixs, e.abs_thresh)
        yin    == IF sub # <<>> THEN sub[1] ELSE ixs[ArgMin([i \in 1..Len(ixs) |-> ixs[i].dn])]
        ix_ref == e.onset_ix
        near   == ixs[ArgMin([i \in 1..Len(ixs) |-> Abs(ix_ref - ixs[i].ix)])]
        b1(ix) == [b EXCEPT !.ix_best = ix, !.tunable = TRUE]
    IN  IF near_octave(yin.ix, ix_ref)
        THEN IF near.dn < offset_thresh_2
             THEN [pe |-> e, blk |-> b1(near.ix)]
             ELSE [pe |-> offset(e, b.timestamp), blk |-> b1(yin.ix)]
        ELSE [pe |-> e, blk |-> b1(yin.ix)]

(* a faulty onset test: any candidate that passed min_thresh declares onset *)
select_onset_loose(e, b, ixs) ==
    [pe |-> onset(e, ixs[1].ix, b.timestamp),
     blk |-> [b EXCEPT !.ix_best = ixs[1].ix, !.tunable = TRUE]]

(* select_lag_0, lines 346-352: no onset yet, the stringent onset threshold *)
select_onset(e, b, ixs) ==
    LET sub == first_below(ixs, onset_thresh)
    IN  IF sub # <<>>
        THEN [pe |-> onset(e, sub[1].ix, b.timestamp),
              blk |-> [b EXCEPT !.ix_best = sub[1].ix, !.tunable = TRUE]]
        ELSE [pe |-> e, blk |-> b]

(* select_lag_0 *)
select_lag_0(e, b) ==
    LET ixs == find_minima(e, b.minima, e.min_thresh)
    IN  IF ixs = <<>>
        THEN [pe |-> IF e.onset_flag THEN offset(e, b.timestamp) ELSE e, blk |-> b]
        ELSE LET r == IF e.onset_flag THEN select_tracking(e, b, ixs) ELSE [pe |-> e, blk |-> b]
             IN  IF ~r.pe.onset_flag THEN select_onset(r.pe, r.blk, ixs) ELSE r

(* upsample_peak and peak_to_pitch: the lag of the smallest interpolated    *)
(* difference between lower and upper - 1, and samplerate / lag             *)
peak_to_pitch(e, b, ix) ==
    LET lower == Max(0, ix - interp_half_width)
        upper == Min(ix + interp_half_width + 1, e.nlags)
        lag   == Max(lower, Min(ix + b.off, upper - 1))
    IN  <<e.samplerate, lag>>

(* dn[ix] for a minimum ix of the block *)
dn_at(b, ix) == (CHOOSE m \in {b.minima[i] : i \in 1..Len(b.minima)} : m.ix = ix).dn

(* a faulty process: without the early return for a block that is not      *)
(* tunable, so that dn[0] = 1 and the pitch at lag 0 are stored for it     *)
PitchEstimator_process_unguarded(e, b) ==
    LET r == select_lag_0(e, b)
        ix_best  == r.blk.ix_best
        pitch    == peak_to_pitch(r.pe, r.blk, ix_best)
        dn_score == IF r.blk.tunable THEN dn_at(r.blk, ix_best) ELSE 100
    IN  [pe |-> append_history(r.pe, ix_best, pitch, dn_score),
         blk |-> [r.blk EXCEPT !.pitch = pitch, !.dn_score = Some(dn_score)]]

(* process *)
PitchEstimator_process(e, b) ==
    LET r == select_lag_0(e, b)
    IN  IF ~r.blk.tunable THEN r
        ELSE LET ix_best  == r.blk.ix_best
                 pitch    == peak_to_pitch(r.pe, r.blk, ix_best)
                 dn_score == dn_at(r.blk, ix_best)
             IN  [pe |-> append_history(r.pe, ix_best, pitch, dn_score),
                  blk |-> [r.blk EXCEPT !.pitch = pitch, !.dn_score = Some(dn_score)]]

MinThreshs == {30, 50}

(* the estimator as constructed, with the shortest or the longest history    *)
(* explored                                                                  *)
InitPitch ==
    /\ \E min_thresh \in MinThreshs, histlen \in {1, MaxHist} :
          pe = PitchEstimator_init(1200, 50, 200, min_thresh, 10, histlen)
    /\ pblk = None
    /\ ptick = 0
    /\ BufUnused
    /\ StreamUnused
    /\ ClockUnused
    /\ IntonUnused
    /\ DriverUnused
    /\ ScaleUnused
    /\ ObserveUnused

(* the driver's tick: a new Block goes through process *)
PE_Process ==
    /\ ptick < MaxTicks
    /\ \E minima \in Contents, off \in PeakOffsets :
          \E r \in {PitchEstimator_process(pe, Block_init(ptick + 1, minima, off))} :
              pe' = r.pe /\ pblk' = r.blk
    /\ ptick' = ptick + 1
    /\ UNCHANGED <<bufVars, bthreadVars, streamVars, clockVars, intonVars, driverVars, scaleVars,
                   observeVars>>

AbsThreshs == {10, 40}

(* PitchWidget.on_thresh_changed: both parameters of the panel are stored in *)
(* the estimator e                                                           *)
PitchWidget_on_thresh_changed(e, min_thresh, abs_thresh) ==
    [e EXCEPT !.min_thresh = min_thresh, !.abs_thresh = abs_thresh]

(* the values the panel can hold when the handler runs: the parameters start *)
(* at the estimator's values and only the handler writes them, and the       *)
(* signal is sent when one parameter has a new value                         *)
ThreshEdits(e) ==
    {v \in MinThreshs \X AbsThreshs : (v[1] # e.min_thresh) # (v[2] # e.abs_thresh)}

(* a threshold is edited in the parameter panel, between two ticks of the    *)
(* driver; edits after the last tick explored are left out, no call reads    *)
(* them                                                                      *)
PE_ThreshChanged ==
    /\ ptick < MaxTicks
    /\ \E v \in ThreshEdits(pe) : pe' = PitchWidget_on_thresh_changed(pe, v[1], v[2])
    /\ UNCHANGED <<pblk, ptick>>
    /\ UNCHANGED <<bufVars, bthreadVars, streamVars, clockVars, intonVars, driverVars, scaleVars,
                   observeVars>>

NextPitch == PE_Process \/ PE_ThreshChanged

SpecPitch == InitPitch /\ [][NextPitch]_vars

----------------------------------------------------------------------------
(* Claims about the PitchEstimator, checked under SpecPitch *)

(* the candidate minima of block b for estimator e: inside the search range *)
(* and not above min_thresh                                                 *)
Candidates(e, b) ==
    {m \in {b.minima[i] : i \in 1..Len(b.minima)} :
        m.ix >= e.cutoff[1] /\ m.ix <= e.cutoff[2] /\ m.dn <= e.min_thresh}

(* C17: a process() call that starts in the no-onset state marks the block   *)
(* tunable and declares onset only if some candidate has dn strictly below   *)
(* onset_thresh.  Without one the block stays not tunable and the estimator  *)
(* stays no-onset with its reference lag and onset time as they were; with   *)
(* one the chosen and the reference lag are the first such candidate in lag  *)
(* order, the onset time is the block's timestamp and the estimator is       *)
(* onset-active.                                                             *)
C17_OnsetNeedsOnsetThresh ==
    [][(ptick' = ptick + 1 /\ ~pe.onset_flag) =>
          LET below == {m \in Candidates(pe, pblk') : m.dn < onset_thresh}
          IN  IF below = {}
              THEN /\ ~pblk'.tunable
                   /\ ~pe'.onset_flag
                   /\ pe'.onset_ix = pe.onset_ix /\ pe'.onset_t = pe.onset_t
              ELSE LET first == CHOOSE m \in below : \A o \in below : m.ix <= o.ix
                   IN  /\ pblk'.tunable /\ pblk'.ix_best = first.ix
                       /\ pe'.onset_flag /\ pe'.onset_ix = first.ix
                       /\ pe'.onset_t = pblk'.timestamp
      ]_vars

(* C17 witness: a block whose candidates pass min_thresh and none of which   *)
(* is below onset_thresh was processed and left not tunable, no onset        *)
C17_Witness ==
    /\ ptick >= 1
    /\ ~pblk.tunable /\ ~pe.onset_flag
    /\ Cardinality(Candidates(pe, pblk)) = 2
    /\ \A m \in Candidates(pe, pblk) : m.dn >= onset_thresh

(* C18: blocks of identical content on consecutive ticks keep the pitch:     *)
(* when the last block was tunable with the reference lag as its chosen lag  *)
(* (as the block on which onset is declared is) and the next block has the   *)
(* same minima, dn values and interpolated peak, the next block is tunable   *)
(* with the same chosen lag and the same pitch.                              *)
C18_SameBlockSamePitch ==
    [][(/\ ptick >= 1 /\ ptick' = ptick + 1
        /\ pblk.tunable /\ pe.onset_flag /\ pe.onset_ix = pblk.ix_best
        /\ pblk'.minima = pblk.minima /\ pblk'.off = pblk.off)
          => (pblk'.tunable /\ pblk'.ix_best = pblk.ix_best /\ pblk'.pitch = pblk.pitch)
      ]_vars

----------------------------------------------------------------------------
(* IntonationEstimator (src/microtune/estimators.py).  Here a frequency is   *)
(* held on the logarithmic scale, as its whole number of cents above 55 Hz   *)
(* (440 Hz is 3600), so that 1200 * log2(pitch / tn_pitch) is the difference *)
(* pitch - tn_pitch.  A raw error is a whole number of cents; a mean of      *)
(* errors is a fraction <<numerator, denominator>> in lowest terms.          *)

MaxBlocks == 3     \* blocks processed in one behaviour of SpecInton

RECURSIVE GCD(_, _)
GCD(a, b) == IF b = 0 THEN a ELSE GCD(b, a % b)

RECURSIVE Sum(_)
Sum(v) == IF v = <<>> THEN 0 ELSE Head(v) + Sum(Tail(v))

(* n / d in lowest terms, d > 0 *)
Frac(n, d) == LET g == GCD(Abs(n), d) IN <<n \div g, d \div g>>

(* the floats inf and nan on the scale of whole cents: inf is the pitch      *)
(* samplerate / lag for lag 0 (estimators.py 242), above every pitch, and    *)
(* nan is what np.mod makes of it (line 477), a value no error in cents has  *)
inf == 2^30
nan == -(2^30)

(* a faulty mean: the last value instead of the mean of all *)
np_mean_last(v) == <<v[Len(v)], 1>>

(* np.mean of a non-empty sequence of whole numbers; nan when one is nan *)
np_mean(v) ==
    IF \E i \in 1..Len(v) : v[i] = nan THEN <<nan, 1>> ELSE Frac(Sum(v), Len(v))

(* scales as Scale.from_dict accepts them: cents of the degrees, degree 0 at *)
(* 0, strictly increasing, below 1200.  The first is the default "EDO12".    *)
EDO12 == [i \in 1..12 |-> 100 * (i - 1)]
Scales == {EDO12, <<0, 600, 1150>>, <<0>>}
TuningPitches == {3600, 3610}
TuningNotes == {0, 9}
PitchInputs == {3590, 3600, 3650, 4750, 4775, 4776, 4790, inf}

(* Block's class attributes for the intonation fields, and what the pitch    *)
(* estimator left in tunable and pitch                                       *)
IBlock(tunable, pitch) ==
    [tunable |-> tunable, pitch |-> pitch, note |-> -1, error |-> 0, error_adj |-> <<0, 1>>]

(* __init__ *)
IntonationEstimator_init(histlen) ==
    [ note |-> 0, note_buf |-> <<>>,
      error |-> 0, error_buf |-> <<>>,
      error_adj |-> <<0, 1>>, error_adj_buf |-> <<>>,
      histlen |-> histlen,
      scale |-> EDO12, tn_note |-> 9, tn_pitch |-> 3600 ]

(* a faulty reset: the raw errors of the earlier tone stay in error_buf *)
process_not_tunable_keep(e) ==
    [e EXCEPT !.note = -1, !.note_buf = <<>>, !.error = 0,
              !.error_adj = <<0, 1>>, !.error_adj_buf = <<>>]

(* process, lines 452-460: the estimator after a block that is not tunable *)
process_not_tunable(e) ==
    [e EXCEPT !.note = -1, !.note_buf = <<>>,
              !.error = 0, !.error_buf = <<>>,
              !.error_adj = <<0, 1>>, !.error_adj_buf = <<>>]

(* process, lines 468-477: distance from the tonic in cents, in [0, 1200);   *)
(* log2 of an infinite pitch is inf and np.mod(inf, 1200) is nan             *)
dist_from_tonic(e, pitch) ==
    LET tn_cents == e.scale[e.tn_note + 1]
        dist_from_tn == pitch - e.tn_pitch
    IN  IF pitch = inf THEN nan ELSE (dist_from_tn + tn_cents) % 1200

(* a faulty match: no wraparound to degree 0 *)
match_note_nowrap(d, cents) ==
    LET note == ArgMin([i \in 1..Len(cents) |-> Abs(d - cents[i])]) - 1
    IN  [note |-> note, error |-> d - cents[note + 1]]

(* process, lines 482-488: the closest scale note and the error; notes count *)
(* from 0.  For d = nan every distance is nan: np.argmin gives 0, the        *)
(* comparison of line 484 is false and the error is nan                      *)
match_note(d, cents) ==
    LET note == ArgMin([i \in 1..Len(cents) |-> Abs(d - cents[i])]) - 1
    IN  IF d = nan
        THEN [note |-> 0, error |-> nan]
        ELSE IF note = Len(cents) - 1 /\ Abs(d - 1200) < Abs(d - cents[Len(cents)])
        THEN [note |-> 0, error |-> d - 1200]
        ELSE [note |-> note, error |-> d - cents[note + 1]]

(* a faulty test: a change of note is never seen *)
note_changed_never(e, note) == FALSE

(* process, line 491: this scale note is different from the last *)
note_changed(e, note) ==
    Len(e.note_buf) > 0 /\ e.note_buf[Len(e.note_buf)] # note

(* process *)
IntonationEstimator_process(e, b) ==
    IF ~b.tunable
    THEN [ie |-> process_not_tunable(e),
          blk |-> [b EXCEPT !.note = -1, !.error = 0, !.error_adj = <<0, 1>>]]
    ELSE LET m == match_note(dist_from_tonic(e, b.pitch), e.scale)
             changed == note_changed(e, m.note)
             e1 == IF changed
                   THEN [e EXCEPT !.note_buf = <<>>, !.error_buf = <<>>, !.error_adj_buf = <<>>]
                   ELSE e
             note_buf == deque_append(e1.note_buf, m.note, e.histlen)
             error_buf == deque_append(e1.error_buf, m.error, e.histlen)
             error_adj == np_mean(error_buf)
         IN  [ie |-> [e1 EXCEPT !.note_buf = note_buf, !.error_buf = error_buf,
                                !.note = m.note, !.error = m.error, !.error_adj = error_adj,
                                !.error_adj_buf = deque_append(e1.error_adj_buf, error_adj, e.histlen)],
              blk |-> [b EXCEPT !.note = m.note, !.error = m.error, !.error_adj = error_adj]]

intonOther == <<bufVars, bthreadVars, streamVars, clockVars, pitchVars, driverVars, scaleVars, observeVars>>

InitInton ==
    /\ \E histlen \in 1..MaxHist : ie = IntonationEstimator_init(histlen)
    /\ iblk = None
    /\ ipre = 0
    /\ itick = 0
    /\ BufUnused
    /\ StreamUnused
    /\ ClockUnused
    /\ PitchUnused
    /\ DriverUnused
    /\ ScaleUnused
    /\ ObserveUnused

(* the driver's tick: the block the pitch estimator left goes through process; *)
(* a block that is not tunable has Block's default pitch, -1.0                 *)
IE_Process ==
    /\ itick < MaxBlocks
    /\ \E b \in {IBlock(FALSE, -1)} \cup {IBlock(TRUE, pitch) : pitch \in PitchInputs} :
          LET r == IntonationEstimator_process(ie, b)
          IN  ie' = r.ie /\ iblk' = r.blk
    /\ ipre' = Len(ie.note_buf)
    /\ itick' = itick + 1
    /\ UNCHANGED intonOther

(* the intonation widget loads a scale: the scale setter, then the tn_note *)
(* setter with an index of the new scale                                   *)
IE_LoadScale ==
    /\ \E new_scale \in Scales, index \in TuningNotes :
          /\ index < Len(new_scale)
          /\ ie' = [ie EXCEPT !.scale = new_scale, !.tn_note = index]
    /\ UNCHANGED <<iblk, ipre, itick>>
    /\ UNCHANGED intonOther

(* the intonation widget's tuning note or tuning pitch changed: the tn_note *)
(* and tn_pitch setters                                                     *)
IE_TuningChanged ==
    /\ \E index \in TuningNotes, freq \in TuningPitches :
          /\ index < Len(ie.scale)
          /\ ie' = [ie EXCEPT !.tn_note = index, !.tn_pitch = freq]
    /\ UNCHANGED <<iblk, ipre, itick>>
    /\ UNCHANGED intonOther

NextInton == IE_Process \/ IE_LoadScale \/ IE_TuningChanged

SpecInton == InitInton /\ [][NextInton]_vars

----------------------------------------------------------------------------
(* Claims about the IntonationEstimator, checked under SpecInton *)

(* C19: a process() call on a block that is not tunable, whatever the state  *)
(* before, leaves note = -1, error and error_adj = 0.0 and note_buf,         *)
(* error_buf and error_adj_buf empty, and gives the block's note, error and  *)
(* error_adj the same neutral values.                                        *)
C19_NotTunableResets ==
    [][(itick' = itick + 1 /\ ~iblk'.tunable) =>
          /\ ie'.note = -1 /\ ie'.error = 0 /\ ie'.error_adj = <<0, 1>>
          /\ ie'.note_buf = <<>> /\ ie'.error_buf = <<>> /\ ie'.error_adj_buf = <<>>
          /\ iblk'.note = -1 /\ iblk'.error = 0 /\ iblk'.error_adj = <<0, 1>>
      ]_vars

(* C19 witness: a block that is not tunable was processed by an estimator    *)
(* that held two notes of an earlier tone                                    *)
C19_Witness ==
    /\ itick >= 1
    /\ ~iblk.tunable
    /\ ipre >= 2
    /\ ie.note_buf = <<>> /\ ie.error = 0

(* distance between two cents values around the octave *)
CircDist(a, b) == Min(Abs(a - b), 1200 - Abs(a - b))

(* C20: for a tunable block of finite pitch, with distance from the tonic d  *)
(* in [0, 1200):                                                             *)
(* when d is nearer to 1200 than to the last degree the note is degree 0 and *)
(* the error d - 1200, negative; otherwise the note is the lowest degree     *)
(* with minimal |d - cents| and the error d - cents[note]; either way the    *)
(* note is a degree nearest to d around the octave, and the estimator's note *)
(* and error are the block's.                                                *)
C20_NoteIsCircularlyNearest ==
    [][(itick' = itick + 1 /\ iblk'.tunable /\ iblk'.pitch # inf) =>
          LET cents == ie.scale
              n     == Len(cents)
              d     == (iblk'.pitch - ie.tn_pitch + cents[ie.tn_note + 1]) % 1200
              note  == iblk'.note
          IN  /\ d >= 0 /\ d < 1200
              /\ note \in 0..(n - 1)
              /\ IF 1200 - d < Abs(d - cents[n])
                 THEN note = 0 /\ iblk'.error = d - 1200 /\ iblk'.error < 0
                 ELSE /\ \A j \in 1..n : Abs(d - cents[note + 1]) <= Abs(d - cents[j])
                      /\ \A j \in 1..note : Abs(d - cents[j]) > Abs(d - cents[note + 1])
                      /\ iblk'.error = d - cents[note + 1]
              /\ \A j \in 1..n : CircDist(d, cents[note + 1]) <= CircDist(d, cents[j])
              /\ ie'.note = note /\ ie'.error = iblk'.error
      ]_vars

(* C20 witness: last degree at 1150 cents, tuning note degree 0 at 440 Hz,   *)
(* a pitch 1190 cents above it: degree 0 with error -10                      *)
C20_Witness ==
    /\ itick >= 1
    /\ iblk.tunable
    /\ ie.scale = <<0, 600, 1150>> /\ ie.tn_note = 0 /\ ie.tn_pitch = 3600
    /\ iblk.pitch = 4790
    /\ iblk.note = 0 /\ iblk.error = -10

(* C21: when the matched note of a tunable block differs from the matched    *)
(* note of the tunable block processed before it, then right after process   *)
(* note_buf, error_buf and error_adj_buf each hold exactly one value (this   *)
(* block's note, raw error and smoothed error) and the smoothed error is the *)
(* raw error: nothing of the earlier note is averaged in.  The same holds    *)
(* when blocks that are not tunable lie between the two (they empty the      *)
(* histories) and for the first block.                                       *)
C21_NoteChangeResetsHistories ==
    [][(/\ itick' = itick + 1
        /\ iblk'.tunable
        /\ (itick = 0 \/ ~iblk.tunable \/ iblk'.note # iblk.note)) =>
          /\ ie'.note_buf = <<iblk'.note>>
          /\ ie'.error_buf = <<iblk'.error>>
          /\ ie'.error_adj_buf = <<ie'.error_adj>>
          /\ ie'.error_adj = <<ie'.error, 1>>
          /\ iblk'.error_adj = ie'.error_adj
      ]_vars

(* C21 witness: two blocks matched to one note filled the histories to two   *)
(* values, then a block matched to another note with a raw error other than  *)
(* 0 left one value in each                                                  *)
C21_Witness ==
    /\ itick >= 3
    /\ iblk.tunable
    /\ ipre >= 2
    /\ Len(ie.note_buf) = 1 /\ Len(ie.error_buf) = 1 /\ Len(ie.error_adj_buf) = 1
    /\ ie.error # 0
    /\ ie.error_adj = <<ie.error, 1>>

----------------------------------------------------------------------------
(* MainWindow (src/microtune/driver.py): the timer-driven analysis loop.  Qt *)
(* delivers the timer's timeout and the key presses on one thread, so every  *)
(* handler runs to its end before the next begins.  Of the audio a block     *)
(* carries its length and, as in SpecPitch, the minima of its normalized     *)
(* difference function; the interpolated peak is at the chosen index.        *)

MaxDriverTicks == 2   \* timer ticks in one behaviour

(* lengths of the array instream.read() returns: the whole buffer when it    *)
(* has a fill value or is full; only the rows written so far, none at first, *)
(* after the bufsize setter replaced the buffer by one without a fill value  *)
DataLens == {0, 20, 60}

(* the minima of the blocks the driver reads *)
DriverMinima ==
    { <<>>,
      <<[ix |-> 8, dn |-> 5]>>,
      <<[ix |-> 8, dn |-> 20]>>,
      <<[ix |-> 13, dn |-> 5]>>,
      <<[ix |-> 8, dn |-> 12], [ix |-> 13, dn |-> 5]>> }

(* record a with the fields of b added or replaced *)
Merge(a, b) ==
    [f \in (DOMAIN a) \cup (DOMAIN b) |-> IF f \in DOMAIN b THEN b[f] ELSE a[f]]

(* the length of data[start:stop] for an array of n elements, start >= 0 *)
slice_len(n, start, stop) ==
    LET hi == IF stop < 0 THEN Max(0, n + stop) ELSE Min(stop, n)
        lo == Min(start, n)
    IN  Max(0, hi - lo)

(* numpy broadcasting of two one-dimensional arrays of lengths a and b *)
broadcastable(a, b) == a = b \/ a = 1 \/ b = 1

(* PitchEstimator.process, lines 169-172: data[:W] - data[tau:tau+W] for     *)
(* every lag tau raises ValueError when the two slices cannot be broadcast   *)
difference_raises(n, nlags) ==
    LET W == Floor(n, 2) - 1
    IN  \E tau \in 0..(nlags - 1) :
            ~broadcastable(slice_len(n, 0, W), slice_len(n, tau, tau + W))

(* whole cents above 55 Hz of the frequency 1200 / lag Hz, by lag *)
LagCents == [lag \in {3, 8, 13, 16, 18} |->
                CASE lag = 3 -> 3435 [] lag = 8 -> 1737 [] lag = 13 -> 896
                  [] lag = 16 -> 537 [] lag = 18 -> 333]

(* a frequency samplerate / lag on the logarithmic scale of the intonation   *)
(* estimator; lag 0 is the infinite pitch                                    *)
cents_of(pitch) == IF pitch[2] = 0 THEN inf ELSE LagCents[pitch[2]]

(* Block(data, index, timestamp, samplerate) with the class attributes; the *)
(* data are held as their length n, the minima of their dn and off, where   *)
(* the interpolated difference function is smallest around a minimum        *)
DBlock(n, index, timestamp, minima, off) ==
    Merge(Block_init(timestamp, minima, off),
          [len |-> n, index |-> index, samplerate |-> 1200,
           note |-> -1, error |-> 0, error_adj |-> <<0, 1>>])

(* __init__ *)
MainWindow_init == [processing |-> FALSE, block_counter |-> 0, block |-> None]

(* start *)
MainWindow_start(w) == IF w.processing THEN w ELSE [w EXCEPT !.processing = TRUE]

(* stop *)
MainWindow_stop(w) == IF ~w.processing THEN w ELSE [w EXCEPT !.processing = FALSE]

(* what one call of process() did: the objects after it, the calls it made   *)
(* in order and whether an exception left it                                 *)
Did(w, p, i, calls, raised) ==
    [mw |-> w, pe |-> p, ie |-> i, calls |-> calls, raised |-> raised]

(* a faulty process: the empty-read gate comes before the counter is        *)
(* incremented                                                              *)
MainWindow_process_gate_first(w, p, i, n, minima, off, t) ==
    IF ~w.processing THEN Did(w, p, i, <<>>, FALSE)
    ELSE LET blk == DBlock(n, w.block_counter, t, minima, off)
             w1  == [w EXCEPT !.block = Some(blk), !.block_counter = @ + 1]
         IN  IF blk.len = 0 THEN Did([w EXCEPT !.block = Some(blk)], p, i, <<>>, FALSE)
             ELSE IF difference_raises(n, p.nlags)
             THEN Did(w1, p, i, <<"pitch_estimator.process">>, TRUE)
             ELSE LET r1 == PitchEstimator_process(p, blk)
                      r2 == IntonationEstimator_process(i,
                                IF r1.blk.tunable
                                THEN [r1.blk EXCEPT !.pitch = cents_of(@)]
                                ELSE r1.blk)
                      b2 == [r2.blk EXCEPT !.pitch = r1.blk.pitch]
                  IN  Did([w1 EXCEPT !.block = Some(b2)], r1.pe, r2.ie,
                          <<"pitch_estimator.process", "intonation_estimator.process",
                            "blockProcessed.emit">>, FALSE)

(* process: w the window, p and i its estimators, n, minima and off the     *)
(* audio read, t what the block timer returns                               *)
MainWindow_process(w, p, i, n, minima, off, t) ==
    IF ~w.processing THEN Did(w, p, i, <<>>, FALSE)
    ELSE LET blk == DBlock(n, w.block_counter, t, minima, off)
             w1  == [w EXCEPT !.block = Some(blk), !.block_counter = @ + 1]
         IN  IF blk.len = 0 THEN Did(w1, p, i, <<>>, FALSE)
             ELSE IF difference_raises(n, p.nlags)
             THEN Did(w1, p, i, <<"pitch_estimator.process">>, TRUE)
             ELSE LET r1 == PitchEstimator_process(p, blk)
                      r2 == IntonationEstimator_process(i,
                                IF r1.blk.tunable
                                THEN [r1.blk EXCEPT !.pitch = cents_of(@)]
                                ELSE r1.blk)
                      b2 == [r2.blk EXCEPT !.pitch = r1.blk.pitch]
                  IN  Did([w1 EXCEPT !.block = Some(b2)], r1.pe, r2.ie,
                          <<"pitch_estimator.process", "intonation_estimator.process",
                            "blockProcessed.emit">>, FALSE)

driverOther == <<bufVars, bthreadVars, streamVars, clockVars, pblk, ptick, iblk, ipre, itick, scaleVars, observeVars>>

(* MainWindow.__init__: PitchEstimator(samplerate) and IntonationEstimator() *)
(* with their default parameters, for a stream of 1200 samples a second      *)
InitDriver ==
    /\ mw = MainWindow_init
    /\ pe = PitchEstimator_init(1200, 60, 1500, 30, 10, 20)
    /\ ie = IntonationEstimator_init(20)
    /\ dlog = None
    /\ dtick = 0
    /\ pblk = None /\ ptick = 0
    /\ iblk = None /\ ipre = 0 /\ itick = 0
    /\ BufUnused
    /\ StreamUnused
    /\ ClockUnused
    /\ ScaleUnused
    /\ ObserveUnused

(* the space key or the application starts processing *)
D_Start ==
    /\ ~mw.processing
    /\ mw' = MainWindow_start(mw)
    /\ UNCHANGED <<pe, ie, dlog, dtick>>
    /\ UNCHANGED driverOther

(* the space key or closing the window stops processing *)
D_Stop ==
    /\ mw.processing
    /\ mw' = MainWindow_stop(mw)
    /\ UNCHANGED <<pe, ie, dlog, dtick>>
    /\ UNCHANGED driverOther

(* the timer started by start() times out: process() *)
D_Tick ==
    /\ mw.processing
    /\ dtick < MaxDriverTicks
    /\ \E n \in DataLens, minima \in DriverMinima, off \in PeakOffsets :
          \E r \in {MainWindow_process(mw, pe, ie, n, minima, off, dtick + 1)} :
              /\ mw' = r.mw /\ pe' = r.pe /\ ie' = r.ie
              /\ dlog' = [n |-> n, calls |-> r.calls, raised |-> r.raised]
    /\ dtick' = dtick + 1
    /\ UNCHANGED driverOther

(* a threshold is edited in the pitch widget's parameter panel *)
D_ThreshChanged ==
    /\ dtick < MaxDriverTicks
    /\ \E v \in ThreshEdits(pe) : pe' = PitchWidget_on_thresh_changed(pe, v[1], v[2])
    /\ UNCHANGED <<mw, ie, dlog, dtick>>
    /\ UNCHANGED driverOther

(* a scale is loaded in the intonation widget, which holds the window's     *)
(* intonation estimator: the scale setter, then the tn_note setter with an  *)
(* index of the new scale                                                   *)
D_LoadScale ==
    /\ dtick < MaxDriverTicks
    /\ \E new_scale \in Scales, index \in TuningNotes :
          /\ index < Len(new_scale)
          /\ ie' = [ie EXCEPT !.scale = new_scale, !.tn_note = index]
    /\ UNCHANGED <<mw, pe, dlog, dtick>>
    /\ UNCHANGED driverOther

(* the intonation widget's tuning note or tuning pitch is edited: the       *)
(* tn_note and tn_pitch setters                                             *)
D_TuningChanged ==
    /\ dtick < MaxDriverTicks
    /\ \E index \in TuningNotes, freq \in TuningPitches :
          /\ index < Len(ie.scale)
          /\ ie' = [ie EXCEPT !.tn_note = index, !.tn_pitch = freq]
    /\ UNCHANGED <<mw, pe, dlog, dtick>>
    /\ UNCHANGED driverOther

(* the window's events: the keys, the timer and the handlers of its widgets *)
NextDriver ==
    \/ D_Start \/ D_Stop \/ D_Tick
    \/ D_ThreshChanged \/ D_LoadScale \/ D_TuningChanged

SpecDriver == InitDriver /\ [][NextDriver]_vars

----------------------------------------------------------------------------
(* Claims about the driver, checked under SpecDriver *)

(* C22: on a tick whose read() returns a zero-length array the driver calls  *)
(* neither estimator, publishes no block, raises nothing and leaves both     *)
(* estimators as they were; on every other tick while processing the block   *)
(* goes through PitchEstimator.process, then IntonationEstimator.process,    *)
(* then is published, once each and in that order.                           *)
C22_EmptyReadSkipsElseFullCycle ==
    [][(dtick' = dtick + 1 /\ mw.processing) =>
          IF dlog'.n = 0
          THEN /\ dlog'.calls = <<>> /\ ~dlog'.raised
               /\ pe' = pe /\ ie' = ie
          ELSE /\ dlog'.calls = <<"pitch_estimator.process", "intonation_estimator.process",
                                  "blockProcessed.emit">>
               /\ ~dlog'.raised
      ]_vars

----------------------------------------------------------------------------
(* InputStream once its first start() has returned: the session of InitStream *)
(* is active, everything else is as constructed.  The operation count starts  *)
(* here, so that two more control operations meet a running capture.          *)

InitStarted ==
    /\ haltWaits \in BOOLEAN
    /\ \E ch \in ChannelCounts, bufsize \in 1..MaxBufsize :
          /\ sess = SessStart(NewSession([device |-> 0, channels |-> ch, samplerate |-> 44,
                                          blocksize |-> 0, callback |-> "_write"], 1))
          /\ buf = CircularBuffer_init(bufsize, ch, Some(0))
    /\ written = <<>>
    /\ nrows = 0
    /\ slock = None
    /\ mpc = "idle" /\ mloc = IdleLoc
    /\ rpc = "idle" /\ rret = None /\ rview = FALSE
    /\ cb = [sid \in Sessions |-> IdleCb]
    /\ captured = <<>>
    /\ gh = [ops |-> 0, nsess |-> 1, bufid |-> 1, bufsess |-> 1, stopMark |-> 0, quiet |-> FALSE,
             last |-> None]
    /\ block = None
    /\ bpc = [t \in Threads |-> "idle"]
    /\ barg = [t \in Threads |-> <<>>]
    /\ bret = [t \in Threads |-> None]
    /\ bview = [t \in Threads |-> FALSE]
    /\ bfresh = [t \in Threads |-> FALSE]
    /\ ToolsUnused

(* stop() and close() against the callback and the reader *)
NextStarted ==
    \/ M_Stop \/ M_StopAcquire \/ M_StopSession \/ M_StopClear \/ M_StopRelease
    \/ M_Close \/ M_CloseAcquire \/ M_CloseStop \/ M_CloseSession
    \/ R_Acquire \/ R_Read \/ R_Release
    \/ \E sid \in Sessions : Cb_Invoke(sid) \/ Cb_Acquire(sid) \/ Cb_Write(sid)

SpecStarted == InitStarted /\ [][NextStarted]_vars

(* C23: stop() and close() are idempotent.  A stop() called when the control *)
(* operation that returned last was stop() never waits for the session, and  *)
(* returns with the session (active, closed and all its settings) and the    *)
(* buffer (rows, head, full flag, cache) exactly as the first stop() left    *)
(* them.  A close() called when the operation that returned last was close() *)
(* never waits for the session, changes the buffer in none of its steps and  *)
(* returns with the session exactly as the first close() left it.            *)
C23_StopCloseIdempotent ==
    /\ [][/\ (mpc = "sp_rel" /\ mpc' = "idle" /\ mloc.pre # None) =>
                (sess' = mloc.pre[1].sess /\ buf' = mloc.pre[1].buf /\ written' = <<>>)
          /\ (mpc = "cl_close" /\ mpc' = "idle" /\ mloc.pre # None) =>
                sess' = mloc.pre[1].sess
          /\ (mloc.op = "close" /\ mloc.pre # None /\ mpc' # mpc) =>
                (buf' = buf /\ written' = written)
         ]_vars
    /\ []((mloc.op \in {"stop", "close"} /\ mloc.pre # None /\ mpc \in {"sp_halt", "cl_stop", "cl_close"})
             => HaltReturns(sess))

(* C23 witness: a capture was running and had delivered rows when stop() was *)
(* called; a second stop() is about to return                                *)
C23_Witness ==
    /\ mpc = "sp_rel" /\ mloc.op = "stop" /\ mloc.pre # None
    /\ nrows > 0
    /\ mloc.pre[1].sess.active = FALSE /\ sess.active = FALSE

(* C23 witness for close(): a second close() of a session that had been     *)
(* running is about to return                                               *)
C23_WitnessClose ==
    /\ mpc = "cl_close" /\ mloc.op = "close" /\ mloc.pre # None
    /\ nrows > 0
    /\ mloc.pre[1].sess.closed /\ sess.closed

----------------------------------------------------------------------------
(* Scale.from_dict (src/microtune/scales.py).  A dictionary of notes or of   *)
(* note names is the sequence of its <<key, value>> pairs in iteration       *)
(* order, the key being what int(key) gives (the JSON keys "0" and "00" are  *)
(* two pairs of key 0).  An array is a sequence; index i of the code is      *)
(* position i + 1.                                                           *)

MaxNotes == 3      \* most pairs in the "notes" dictionary

NoteKeys == {-1, 0, 1, 2}
CentsValues == {-50, 0, 100, 700, 1200}

(* default_note_names() *)
default_note_names ==
    <<"C", "C#/Db", "D", "D#/Eb", "E", "F", "F#/Gb", "G", "G#/Ab", "A", "A#/Bb", "B">>

(* a dictionary with the keys 0..n-1 in order and the default names *)
names_dict(n) == [i \in 1..n |-> <<i - 1, default_note_names[i]>>]

(* the "notes" dictionaries explored *)
NotesInputs ==
    UNION {[1..n -> NoteKeys \X CentsValues] : n \in 0..MaxNotes}

(* the "note_names" entries explored for a "notes" dictionary of n pairs:   *)
(* absent, as many names, one name more                                     *)
NamesInputs(n) == {None, Some(names_dict(n)), Some(names_dict(n + 1))}

OkScale(cents, names) == [raised |-> FALSE, error |-> "", cents |-> cents, names |-> names]
ScaleError(e) == [raised |-> TRUE, error |-> e, cents |-> <<>>, names |-> <<>>]

(* arr[int(key)] = val for every pair of the dictionary in order, on an     *)
(* array arr: the array, or none when an index is out of range (IndexError) *)
RECURSIVE assign_items(_, _)
assign_items(arr, items) ==
    IF items = <<>> THEN Some(arr)
    ELSE LET key == Head(items)[1]
             ix  == IF key < 0 THEN Len(arr) + key ELSE key
         IN  IF ix < 0 \/ ix >= Len(arr) THEN None
             ELSE assign_items([arr EXCEPT ![ix + 1] = Head(items)[2]], Tail(items))

(* line 171: np.all(np.ediff1d(cents) > 0) *)
ediff_positive(cents) == \A i \in 1..(Len(cents) - 1) : cents[i + 1] - cents[i] > 0

(* from_dict, lines 168-173: the assertions on the arrays read *)
Scale_check(cents, names) ==
    IF Len(cents) # Len(names) THEN ScaleError("AssertionError")
    ELSE IF Len(cents) = 0 THEN ScaleError("IndexError")
    ELSE IF cents[1] # 0 THEN ScaleError("AssertionError")
    ELSE IF ~ediff_positive(cents) THEN ScaleError("AssertionError")
    ELSE IF ~(\A i \in 1..Len(cents) : cents[i] >= 0) THEN ScaleError("AssertionError")
    ELSE IF ~(\A i \in 1..Len(cents) : cents[i] < 1200) THEN ScaleError("AssertionError")
    ELSE OkScale(cents, names)

(* the integer 0 in an array of objects that otherwise holds strings *)
IntZero == "int(0)"

(* from_dict: np.zeros of the dictionary's length filled from its pairs, for *)
(* the cents and for the names (the default names when "note_names" is       *)
(* absent); a name left at the array's initial 0 fails at  "/" in name       *)
Scale_from_dict(dct) ==
    LET cents_dict == dct.notes
        cents      == assign_items([i \in 1..Len(cents_dict) |-> 0], cents_dict)
        names_d    == IF dct.note_names = None THEN names_dict(12) ELSE dct.note_names[1]
        names      == assign_items([i \in 1..Len(names_d) |-> IntZero], names_d)
    IN  IF cents = None THEN ScaleError("IndexError")
        ELSE IF names = None THEN ScaleError("IndexError")
        ELSE IF \E i \in 1..Len(names[1]) : names[1][i] = IntZero THEN ScaleError("TypeError")
        ELSE Scale_check(cents[1], names[1])

scaleOther == <<bufVars, bthreadVars, streamVars, clockVars, pitchVars, intonVars, driverVars,
               observeVars>>

InitScale ==
    /\ \E notes \in NotesInputs :
          \E names \in NamesInputs(Len(notes)) :
              sarg = [notes |-> notes, note_names |-> names]
    /\ sres = None
    /\ BufUnused
    /\ StreamUnused
    /\ ClockUnused
    /\ PitchUnused
    /\ IntonUnused
    /\ DriverUnused
    /\ ObserveUnused

(* Scale.from_dict(dct) is called *)
SC_FromDict ==
    /\ sres = None
    /\ sres' = Some(Scale_from_dict(sarg))
    /\ UNCHANGED sarg
    /\ UNCHANGED scaleOther

NextScale == SC_FromDict

SpecScale == InitScale /\ [][NextScale]_vars

----------------------------------------------------------------------------
(* Claims about Scale, checked under SpecScale *)

(* C24: from_dict fails with an error instead of returning a Scale whenever  *)
(* the dictionary gives degree 0 other than 0 cents, gives cents that do not *)
(* strictly increase with the degree, holds a cents value outside [0, 1200)  *)
(* or has another number of names (the 12 default names when it has none)    *)
(* than of cents values; and every Scale returned has as many names as       *)
(* cents, cents[0] = 0, strictly increasing cents, all in [0, 1200).         *)
(* from_dict checks the array it filled, not the dictionary: a negative key  *)
(* indexes from the end and a later key overwrites an earlier one, so        *)
(* {"-1": -50, "1": 100} with two names returns the Scale with cents         *)
(* [0, 100].                                                                 *)
C24_ScaleIsValidated ==
    sres # None =>
        LET notes == sarg.notes
            n     == Len(notes)
            nnames == IF sarg.note_names = None THEN 12 ELSE Len(sarg.note_names[1])
            r     == sres[1]
        IN  /\ (\E i \in 1..n : notes[i][1] = 0 /\ notes[i][2] # 0) => r.raised
            /\ (\E i \in 1..n, j \in 1..n :
                    notes[i][1] < notes[j][1] /\ notes[i][2] >= notes[j][2]) => r.raised
            /\ (\E i \in 1..n : notes[i][2] < 0 \/ notes[i][2] >= 1200) => r.raised
            /\ nnames # n => r.raised
            /\ ~r.raised =>
                  /\ Len(r.names) = Len(r.cents)
                  /\ Len(r.cents) > 0 /\ r.cents[1] = 0
                  /\ \A i \in 1..Len(r.cents), j \in 1..Len(r.cents) :
                        i < j => r.cents[i] < r.cents[j]
                  /\ \A i \in 1..Len(r.cents) : r.cents[i] >= 0 /\ r.cents[i] < 1200

----------------------------------------------------------------------------
(* Further claims about the PitchEstimator, checked under SpecPitch *)

EmptyHistory == [ix_best |-> <<>>, dn_score |-> <<>>, pitch |-> <<>>]

(* the block's pitch and score are as Block left them: pitch -1.0, no score *)
PitchUnset(b) == b.pitch = <<-1, 1>> /\ b.dn_score = None

(* C25: when no candidate minimum of the block survives the filtering at     *)
(* min_thresh, process leaves an onset-active estimator no-onset with all    *)
(* three histories empty, the reference lag and the onset time reset to 0    *)
(* and the block's timestamp as offset time; it leaves a no-onset estimator  *)
(* as it was; either way the block stays not tunable.                        *)
C25_NoCandidatesMeansOffset ==
    [][(ptick' = ptick + 1 /\ Candidates(pe, pblk') = {}) =>
          /\ ~pblk'.tunable
          /\ IF pe.onset_flag
             THEN pe' = [pe EXCEPT !.history = EmptyHistory, !.onset_flag = FALSE,
                                   !.onset_ix = 0, !.onset_t = 0,
                                   !.offset_t = pblk'.timestamp]
             ELSE pe' = pe
      ]_vars

(* C25 witness: the first block declared onset and entered the histories;    *)
(* the second had minima but none that survived the filtering, and left the  *)
(* estimator no-onset with its timestamp as offset time                      *)
C25_Witness ==
    /\ ptick = 2
    /\ pblk.minima # <<>> /\ Candidates(pe, pblk) = {}
    /\ ~pe.onset_flag /\ pe.offset_t = 2 /\ pe.onset_ix = 0
    /\ pe.history = EmptyHistory
    /\ ~pblk.tunable

(* the raw best candidate while tracking: the first candidate in lag order  *)
(* with dn below abs_thresh, else the first with the smallest dn            *)
RawBest(e, b) ==
    LET c     == Candidates(e, b)
        below == {m \in c : m.dn < e.abs_thresh}
        pool  == IF below # {} THEN below ELSE {m \in c : \A o \in c : m.dn <= o.dn}
    IN  CHOOSE m \in pool : \A o \in pool : m.ix <= o.ix

(* the candidate nearest the reference lag, the lower lag of two equally near *)
NearRef(e, b) ==
    LET c    == Candidates(e, b)
        pool == {m \in c : \A o \in c : Abs(e.onset_ix - m.ix) <= Abs(e.onset_ix - o.ix)}
    IN  CHOOSE m \in pool : \A o \in pool : m.ix <= o.ix

(* the raw best candidate is a harmonic match of the reference lag whose    *)
(* current score (the dn of the candidate nearest it) is not confident      *)
DecayedReference(e, b) ==
    /\ e.onset_flag /\ Candidates(e, b) # {}
    /\ near_octave(RawBest(e, b).ix, e.onset_ix)
    /\ NearRef(e, b).dn >= offset_thresh_2

(* C26: when the estimator is onset-active and the raw best candidate is a   *)
(* harmonic match of the reference lag while the reference's current score   *)
(* is not below offset_thresh_2, the estimator is no-onset when process      *)
(* returns.                                                                  *)
C26_DecayedReferenceEndsOnset ==
    [][(ptick' = ptick + 1 /\ DecayedReference(pe, pblk')) => ~pe'.onset_flag]_vars

(* C27: when the estimator is onset-active and candidates exist, the block   *)
(* is marked tunable and its chosen lag is the candidate nearest the         *)
(* reference lag if the raw best candidate (the first with dn below          *)
(* abs_thresh, else the one of smallest dn) is a harmonic match of the       *)
(* reference lag and the reference's current score is below offset_thresh_2, *)
(* and the raw best candidate otherwise.                                     *)
C27_TrackingChoosesLag ==
    [][(ptick' = ptick + 1 /\ pe.onset_flag /\ Candidates(pe, pblk') # {}) =>
          LET raw  == RawBest(pe, pblk')
              near == NearRef(pe, pblk')
              chosen == IF near_octave(raw.ix, pe.onset_ix) /\ near.dn < offset_thresh_2
                        THEN near.ix ELSE raw.ix
          IN  pblk'.tunable /\ pblk'.ix_best = chosen
      ]_vars

(* C28: if process leaves the block not tunable, the block's pitch and score *)
(* remain unset and the estimator's three histories are exactly the same     *)
(* after the call as before it, whether the estimator was no-onset or        *)
(* onset-active.                                                             *)
C28_NotTunableLeavesHistory ==
    [][(ptick' = ptick + 1 /\ ~pblk'.tunable) =>
          PitchUnset(pblk') /\ pe'.history = pe.history
      ]_vars

(* C28, amended: if process leaves the block not tunable, the block's pitch  *)
(* and score remain unset and nothing is appended to the histories: they are *)
(* the same after the call as before it when the estimator was no-onset, and *)
(* they are emptied by the offset transition when it was onset-active.       *)
C28_NotTunableAppendsNothing ==
    [][(ptick' = ptick + 1 /\ ~pblk'.tunable) =>
          /\ PitchUnset(pblk')
          /\ pe'.history = IF pe.onset_flag THEN EmptyHistory ELSE pe.history
      ]_vars

(* C28 witness: a second block that process left not tunable, with pitch and *)
(* score unset, whose call ended the tone of the first block and emptied the *)
(* histories that held it                                                    *)
C28_Witness ==
    /\ ptick = 2 /\ ~pblk.tunable /\ PitchUnset(pblk)
    /\ pe.offset_t = pblk.timestamp
    /\ pe.history.pitch = <<>> /\ pe.history.ix_best = <<>> /\ pe.history.dn_score = <<>>

(* C29: after every process call, if the estimator is no-onset then all      *)
(* three histories (ix_best, dn_score, pitch) are empty.                     *)
C29_NoOnsetMeansEmptyHistory ==
    (ptick > 0 /\ ~pe.onset_flag) =>
        /\ pe.history.ix_best = <<>>
        /\ pe.history.dn_score = <<>>
        /\ pe.history.pitch = <<>>

(* the candidates with dn below a threshold, the one of lowest lag in a set  *)
(* of candidates, and whether two candidates of a set have identical dn      *)
Below(c, thresh) == {m \in c : m.dn < thresh}
Lowest(c) == CHOOSE m \in c : \A o \in c : m.ix <= o.ix
HasTie(c) == \E m \in c, o \in c : m.ix # o.ix /\ m.dn = o.dn

(* the candidates among which the raw best is chosen while tracking: those   *)
(* below abs_thresh if there are any, else those of the smallest dn          *)
RawPool(e, b) ==
    LET c == Candidates(e, b)
    IN  IF Below(c, e.abs_thresh) # {} THEN Below(c, e.abs_thresh)
        ELSE {m \in c : \A o \in c : m.dn <= o.dn}

(* two candidates are equally near the reference lag, and none is nearer *)
NearTie(e, b) ==
    LET c == Candidates(e, b)
    IN  \E m \in c, o \in c :
           /\ m.ix # o.ix
           /\ Abs(e.onset_ix - m.ix) = Abs(e.onset_ix - o.ix)
           /\ \A q \in c : Abs(e.onset_ix - m.ix) <= Abs(e.onset_ix - q.ix)

(* C30: candidate selection breaks ties by order.  When candidates with      *)
(* identical dn are below the onset threshold, a no-onset estimator chooses  *)
(* the first candidate below it in lag order; when the candidates among      *)
(* which an onset-active estimator chooses its raw best (those below         *)
(* abs_thresh, else those of the smallest dn) hold identical dn values, the  *)
(* lowest lag among them is the raw best, which is the chosen lag when it is *)
(* no harmonic of the reference; when two candidates are equally near the    *)
(* reference lag and the reference is corrected to, the lower lag is chosen. *)
(* The chosen lag is in each case one value fixed by the dn values, the      *)
(* thresholds and the tracking state.                                        *)
C30_TiesBrokenByLagOrder ==
    [][(ptick' = ptick + 1) =>
          \A c \in {Candidates(pe, pblk')} :
             IF ~pe.onset_flag
             THEN \A first \in {Below(c, onset_thresh)} :
                     HasTie(first) =>
                        /\ pblk'.tunable
                        /\ pblk'.ix_best = Lowest(first).ix
                        /\ pe'.onset_flag /\ pe'.onset_ix = pblk'.ix_best
             ELSE c # {} =>
                     \A pool \in {RawPool(pe, pblk')} :
                        \A harmonic \in {near_octave(Lowest(pool).ix, pe.onset_ix)} :
                           /\ (HasTie(pool) /\ ~harmonic) =>
                                 /\ pblk'.tunable
                                 /\ pblk'.ix_best = Lowest(pool).ix
                                 /\ pe'.onset_flag /\ pe'.onset_ix = pe.onset_ix
                           /\ (harmonic /\ NearTie(pe, pblk')) =>
                                 \A near \in {NearRef(pe, pblk')} :
                                    near.dn < offset_thresh_2 =>
                                       /\ pblk'.tunable
                                       /\ pblk'.ix_best = near.ix
                                       /\ pe'.onset_flag /\ pe'.onset_ix = pe.onset_ix
      ]_vars

(* C30 witness: a tone tracked at lag 13, then a block whose two candidates  *)
(* at lags 8 and 16 share the smallest dn, neither below abs_thresh: the     *)
(* lower lag was chosen                                                      *)
C30_Witness ==
    /\ ptick = 2 /\ pe.onset_flag /\ pe.onset_ix = 13
    /\ Len(pblk.minima) = 2
    /\ pblk.minima[1].ix = 8 /\ pblk.minima[2].ix = 16
    /\ pblk.minima[1].dn = pblk.minima[2].dn /\ pblk.minima[1].dn >= pe.abs_thresh
    /\ pblk.tunable /\ pblk.ix_best = 8

(* a tone tracked at lag 16, then a block whose candidates at lags 8 and 24  *)
(* are equally near it: the lower lag was chosen                             *)
C30_WitnessNearTie ==
    /\ ptick = 2 /\ pe.onset_flag /\ pe.onset_ix = 16
    /\ Len(pblk.minima) = 2
    /\ pblk.minima[1].ix = 8 /\ pblk.minima[2].ix = 24
    /\ pblk.minima[2].dn < offset_thresh_2
    /\ pblk.tunable /\ pblk.ix_best = 8

(* a first block whose candidates at lags 8 and 16 share one dn below the    *)
(* onset threshold: onset was declared at the lower lag                      *)
C30_WitnessOnsetTie ==
    /\ ptick = 1 /\ pe.onset_flag /\ pe.onset_ix = 8
    /\ Len(pblk.minima) = 2
    /\ pblk.minima[1].ix = 8 /\ pblk.minima[2].ix = 16
    /\ pblk.minima[1].dn = pblk.minima[2].dn
    /\ pblk.tunable /\ pblk.ix_best = 8

----------------------------------------------------------------------------
(* Further claims about the InputStream, checked under SpecStream *)

(* C31: in every reachable state of an InputStream (after construction, any  *)
(* reconfiguration, any bufsize change, stop() and any number of callback    *)
(* writes) an array that read() returns has exactly bufsize rows.            *)
C31_ReadReturnsBufsizeRows ==
    rpc = "rd_rel" => Len(rret[1]) = Len(buf.arr)

----------------------------------------------------------------------------
(* SpecObserve: one thread calls write() on a CircularBuffer while another   *)
(* evaluates len(), shape or full.  __len__, shape and full do not take the  *)
(* lock, so they interleave with the statements of _write; each assignment   *)
(* to an attribute and each read of one is a step.                           *)

(* shape *)
CircularBuffer_shape(b) ==
    IF b.full \/ b.fill # None THEN <<Len(b.arr), b.width>> ELSE <<b.head, b.width>>

(* full *)
CircularBuffer_full(b) == b.full

(* _write, statement by statement: the buffer after each assignment that the *)
(* call makes, in order (lines 190-192, 199-203, 208-211)                    *)
write_statements(b, blk) ==
    LET blocklen == Len(blk)
        maxlen   == Len(b.arr)
        free     == maxlen - b.head
        new_head == blocklen - free
        done     == CircularBuffer__write(b, blk)
        first    == [i \in 1..maxlen |->
                       IF i > b.head THEN blk[i - b.head] ELSE b.arr[i]]
        at(arr, head, full) ==
            [b EXCEPT !.arr = arr, !.head = head, !.full = full,
                      !.cached = cached_after_write(b, arr)]
    IN  IF blocklen >= maxlen
        THEN << at(done.arr, b.head, b.full),
                at(done.arr, 0, b.full),
                at(done.arr, 0, TRUE) >>
        ELSE IF blocklen <= free
        THEN << at(done.arr, b.head, b.full),
                at(done.arr, b.head + blocklen, b.full) >>
             \o (IF b.head + blocklen = maxlen
                 THEN << at(done.arr, 0, b.full),
                         at(done.arr, 0, TRUE) >>
                 ELSE << >>)
        ELSE << at(first, b.head, b.full),
                at(done.arr, b.head, b.full),
                at(done.arr, new_head, b.full),
                at(done.arr, new_head, TRUE) >>

ObserveOps == {"len", "shape", "full"}

(* what len(), shape or full is for a buffer that no thread is changing *)
Observed(b, op) ==
    CASE op = "len"   -> <<CircularBuffer_len(b)>>
      [] op = "shape" -> CircularBuffer_shape(b)
      [] op = "full"  -> <<b.full>>

IdleWriter == [pc |-> "idle", id |-> 0, blk |-> <<>>, k |-> 0, b0 |-> None]
IdleObserver == [pc |-> "idle", op |-> "", in |-> 0, result |-> None, valid |-> None]

observeOther == <<block, bpc, barg, bret, bview, bfresh, streamVars, clockVars, pitchVars,
                  intonVars, driverVars, scaleVars>>

InitObserve ==
    /\ \E maxlen \in 1..MaxCap, fill_value \in {None, Some(0)} :
          buf = CircularBuffer_init(maxlen, 1, fill_value)
    /\ written = <<>>
    /\ nrows = 0
    /\ wst = IdleWriter
    /\ obs = IdleObserver
    /\ block = None
    /\ bpc = [t \in Threads |-> "idle"]
    /\ barg = [t \in Threads |-> <<>>]
    /\ bret = [t \in Threads |-> None]
    /\ bview = [t \in Threads |-> FALSE]
    /\ bfresh = [t \in Threads |-> FALSE]
    /\ StreamUnused
    /\ ClockUnused /\ PitchUnused /\ IntonUnused /\ DriverUnused /\ ScaleUnused

(* write(), line 129: the writer takes the lock; its block has 1..MaxChunk rows *)
O_WriteAcquire ==
    /\ wst.pc = "idle"
    /\ \E len \in 1..MaxChunk :
          /\ nrows + len <= MaxRows
          /\ wst' = [pc |-> "in", id |-> wst.id + 1, blk |-> Rows(nrows, len), k |-> 0,
                     b0 |-> Some(buf)]
          /\ nrows' = nrows + len
    /\ UNCHANGED <<buf, written, obs>> /\ UNCHANGED observeOther

(* write(), line 130: the next assignment of _write *)
O_WriteStatement ==
    /\ wst.pc = "in"
    /\ LET steps == write_statements(wst.b0[1], wst.blk)
       IN  /\ buf' = steps[wst.k + 1]
           /\ wst' = [wst EXCEPT !.k = @ + 1,
                                 !.pc = IF wst.k + 1 = Len(steps) THEN "drop" ELSE "in"]
           /\ written' = IF wst.k + 1 = Len(steps) THEN written \o wst.blk ELSE written
    /\ UNCHANGED <<nrows, obs>> /\ UNCHANGED observeOther

(* write(), line 131 and the end of the with block *)
O_WriteRelease ==
    /\ wst.pc = "drop"
    /\ buf' = write_invalidate(buf)
    /\ wst' = [IdleWriter EXCEPT !.id = wst.id]
    /\ UNCHANGED <<written, nrows, obs>> /\ UNCHANGED observeOther

(* another thread begins to evaluate len(buf), buf.shape or buf.full; it     *)
(* notes the write() call it finds in progress                               *)
O_Begin ==
    /\ obs.pc = "idle"
    /\ \E op \in ObserveOps :
          obs' = [IdleObserver EXCEPT !.pc = "read_full", !.op = op,
                                      !.in = IF wst.pc = "idle" THEN 0 ELSE wst.id]
    /\ UNCHANGED <<buf, written, nrows, wst>> /\ UNCHANGED observeOther

(* ghost: when the evaluation ends inside the write() call it began in, the  *)
(* value before that write and the value after it                            *)
ValidNow ==
    IF obs.in # 0 /\ wst.pc # "idle" /\ wst.id = obs.in
    THEN Some({ Observed(wst.b0[1], obs.op),
                Observed(CircularBuffer__write(wst.b0[1], wst.blk), obs.op) })
    ELSE None

(* lines 90, 112, 224: self._full is read; full returns it, __len__ and      *)
(* shape return the array's length when it is set or there is a fill value   *)
O_ReadFull ==
    /\ obs.pc = "read_full"
    /\ obs' = IF obs.op = "full"
              THEN [obs EXCEPT !.pc = "done", !.result = Some(<<buf.full>>),
                               !.valid = ValidNow]
              ELSE IF buf.full \/ buf.fill # None
              THEN [obs EXCEPT !.pc = "done",
                               !.result = Some(IF obs.op = "len" THEN <<Len(buf.arr)>>
                                               ELSE <<Len(buf.arr), buf.width>>),
                               !.valid = ValidNow]
              ELSE [obs EXCEPT !.pc = "read_head"]
    /\ UNCHANGED <<buf, written, nrows, wst>> /\ UNCHANGED observeOther

(* lines 92, 226: self._head is read and returned *)
O_ReadHead ==
    /\ obs.pc = "read_head"
    /\ obs' = [obs EXCEPT !.pc = "done",
                          !.result = Some(IF obs.op = "len" THEN <<buf.head>>
                                          ELSE <<buf.head, buf.width>>),
                          !.valid = ValidNow]
    /\ UNCHANGED <<buf, written, nrows, wst>> /\ UNCHANGED observeOther

(* the caller has its value *)
O_Return ==
    /\ obs.pc = "done"
    /\ obs' = IdleObserver
    /\ UNCHANGED <<buf, written, nrows, wst>> /\ UNCHANGED observeOther

NextObserve ==
    \/ O_WriteAcquire
    \/ O_WriteStatement
    \/ O_WriteRelease
    \/ O_Begin
    \/ O_ReadFull
    \/ O_ReadHead
    \/ O_Return

SpecObserve == InitObserve /\ [][NextObserve]_vars

(* the statements of _write add up to _write *)
WriteStatementsAgree ==
    wst.pc = "drop" =>
        buf = [CircularBuffer__write(wst.b0[1], wst.blk) EXCEPT !.cached = buf.cached]

(* C32: len(), shape and full are thread-safe: a value that one thread       *)
(* obtains while another thread is inside write() is the value the buffer    *)
(* had before that write or the one it has after it, never an intermediate   *)
(* one.                                                                      *)
C32_ObservationsAreAtomic ==
    (obs.pc = "done" /\ obs.valid # None) => obs.result[1] \in obs.valid[1]

----------------------------------------------------------------------------
(* Further claims about the CircularBuffer, checked under SpecBuf *)

(* C33: whenever the lock is free, 0 <= head < capacity and the buffer is    *)
(* full exactly when the rows written since construction or the last         *)
(* clear() number at least the capacity; no step changes the capacity; full  *)
(* reverts to false only by clear(); a write of at least capacity rows       *)
(* leaves head = 0 and any other write leaves head = (old head + length)     *)
(* mod capacity.                                                             *)
C33_HeadAndFullFollowWrites ==
    /\ [](block = None =>
            /\ Len(buf.arr) >= 1
            /\ 0 <= buf.head /\ buf.head < Len(buf.arr)
            /\ buf.full <=> Len(written) >= Len(buf.arr))
    /\ [][/\ Len(buf'.arr) = Len(buf.arr)
          /\ (buf.full /\ ~buf'.full) => \E t \in Writers : bpc[t] = "c_in"
          /\ \A t \in Writers :
                (bpc[t] = "w_in" /\ bpc'[t] = "w_drop") =>
                    buf'.head = IF Len(barg[t]) >= Len(buf.arr) THEN 0
                                ELSE (buf.head + Len(barg[t])) % Len(buf.arr)
       ]_vars

(* C33 witness: the lock is free after a write that wrapped around the end   *)
(* of a buffer of capacity 3: more rows written than the capacity, the       *)
(* buffer full, the head past 0                                              *)
C33_Witness ==
    /\ block = None
    /\ Len(buf.arr) = 3 /\ Len(written) = 5
    /\ buf.full /\ buf.head = 2

----------------------------------------------------------------------------
(* Further claims about the IntonationEstimator, checked under SpecInton *)

(* the fraction a is the arithmetic mean of the non-empty sequence v, nan    *)
(* when a value of v is nan                                                  *)
IsMeanOf(a, v) ==
    IF \E k \in 1..Len(v) : v[k] = nan
    THEN a = <<nan, 1>>
    ELSE a[2] > 0 /\ a[1] * Len(v) = Sum(v) * a[2]

(* C34: on a tunable block error_buf holds the raw errors of the consecutive *)
(* tunable blocks matched to the block's note since the last reset, the most *)
(* recent histlen of them; error_adj is their arithmetic mean and is         *)
(* appended to error_adj_buf; and the estimator's note, error and error_adj  *)
(* equal the block's.                                                        *)
C34_SmoothedErrorIsMeanOfHistory ==
    [][(itick' = itick + 1 /\ iblk'.tunable) =>
          LET continues == Len(ie.note_buf) > 0 /\ ie.note_buf[Len(ie.note_buf)] = iblk'.note
              errors == (IF continues THEN ie.error_buf ELSE <<>>) \o <<iblk'.error>>
              means  == (IF continues THEN ie.error_adj_buf ELSE <<>>) \o <<iblk'.error_adj>>
          IN  /\ ie'.error_buf = LastRows(errors, ie.histlen)
              /\ IsMeanOf(iblk'.error_adj, ie'.error_buf)
              /\ ie'.error_adj_buf = LastRows(means, ie.histlen)
              /\ ie'.note = iblk'.note
              /\ ie'.error = iblk'.error
              /\ ie'.error_adj = iblk'.error_adj
      ]_vars

(* C34 witness: a third tunable block on one note with a history of 2: the   *)
(* first block's error has left error_buf, the two kept differ, and the      *)
(* smoothed error is their mean and not the block's raw error                *)
C34_Witness ==
    /\ itick = 3 /\ iblk.tunable /\ ie.histlen = 2 /\ ipre = 2
    /\ Len(ie.error_buf) = 2 /\ ie.error_buf[1] # ie.error_buf[2]
    /\ ie.error_adj # <<ie.error, 1>>
    /\ IsMeanOf(ie.error_adj, ie.error_buf)
    /\ ie.error_adj_buf[2] = ie.error_adj

(* C35: after every process call note_buf, error_buf and error_adj_buf have  *)
(* the same length, at most histlen; every entry of note_buf is the current  *)
(* note; and the three are empty exactly when the last processed block was   *)
(* not tunable.                                                              *)
C35_HistoriesMoveTogether ==
    itick > 0 =>
        /\ Len(ie.note_buf) = Len(ie.error_buf)
        /\ Len(ie.error_buf) = Len(ie.error_adj_buf)
        /\ Len(ie.note_buf) <= ie.histlen
        /\ \A k \in 1..Len(ie.note_buf) : ie.note_buf[k] = ie.note
        /\ (ie.note_buf = <<>>) <=> ~iblk.tunable
        /\ (ie.error_buf = <<>>) <=> ~iblk.tunable
        /\ (ie.error_adj_buf = <<>>) <=> ~iblk.tunable

(* C35 witness: three blocks, the last two tunable on one note, with a       *)
(* history of 1: the buffers were at histlen before the third call, and the  *)
(* third block's entries replaced the second's                               *)
C35_Witness ==
    /\ itick = 3 /\ iblk.tunable /\ ie.histlen = 1 /\ ipre = 1
    /\ ie.note_buf = <<ie.note>> /\ ie.note >= 0
    /\ ie.error_buf = <<ie.error>>
    /\ Len(ie.error_adj_buf) = 1

----------------------------------------------------------------------------
(* Further claims about the PitchEstimator's state, checked under SpecPitch *)

(* C36: after every process call the ix_best, dn_score and pitch histories   *)
(* have equal length, at most histlen; a call whose block ends tunable       *)
(* appends exactly one entry to each, dropping the oldest when at histlen:   *)
(* the block's chosen lag, its dn score and its pitch.  The call that goes   *)
(* through the offset transition at line 341 and declares a new onset on the *)
(* same block empties the histories before it appends, so every earlier      *)
(* entry is lost, not only the oldest.                                       *)
C36_HistoryGrowsByOneEntry ==
    [][(ptick' = ptick + 1) =>
          /\ Len(pe'.history.ix_best) = Len(pe'.history.dn_score)
          /\ Len(pe'.history.dn_score) = Len(pe'.history.pitch)
          /\ Len(pe'.history.ix_best) <= pe'.histlen
          /\ pblk'.tunable =>
                \A n \in {Min(Len(pe.history.ix_best) + 1, pe.histlen)} :
                   /\ pblk'.dn_score # None
                   /\ pe'.history.ix_best = LastRows(Append(pe.history.ix_best, pblk'.ix_best), n)
                   /\ pe'.history.dn_score =
                         LastRows(Append(pe.history.dn_score, pblk'.dn_score[1]), n)
                   /\ pe'.history.pitch = LastRows(Append(pe.history.pitch, pblk'.pitch), n)
      ]_vars

(* C37: after every process call the onset-tracking fields are consistent:   *)
(* in the no-onset state the reference lag and the onset time are 0; in the  *)
(* onset-active state the offset time is 0 and the reference lag is at least *)
(* 1 and inside the lag search range, and it is a candidate index of the     *)
(* block that declared the onset, so the ratio best lag / reference lag of   *)
(* the harmonic test never divides by zero.                                  *)
C37_OnsetFieldsConsistent ==
    ptick > 0 =>
        IF ~pe.onset_flag
        THEN pe.onset_ix = 0 /\ pe.onset_t = 0
        ELSE /\ pe.offset_t = 0
             /\ pe.onset_ix >= 1
             /\ pe.cutoff[1] <= pe.onset_ix /\ pe.onset_ix <= pe.cutoff[2]
             /\ pe.onset_t = pblk.timestamp =>
                   \E m \in Candidates(pe, pblk) : m.ix = pe.onset_ix

(* C37 witness: the second block declared the onset, at lag 8, the first of  *)
(* its two minima, though the other has the smaller dn; the offset time is 0 *)
C37_Witness ==
    /\ ptick = 2 /\ pe.onset_flag /\ pe.onset_t = 2 /\ pe.offset_t = 0
    /\ pe.onset_ix = 8 /\ pblk.ix_best = 8
    /\ Len(pblk.minima) = 2 /\ pblk.minima[2].dn < pblk.minima[1].dn

(* C38: while a tone is tracked the reference is frozen: a process call that *)
(* starts and ends onset-active without going through the offset transition  *)
(* leaves the reference lag and the onset time as they were, also when the   *)
(* block's chosen lag is not the reference lag.                              *)
C38_ReferenceFrozenWhileTracking ==
    [][(ptick' = ptick + 1 /\ pe.onset_flag /\ pe'.onset_flag
          /\ ~DecayedReference(pe, pblk')) =>
          /\ pe'.onset_ix = pe.onset_ix
          /\ pe'.onset_t = pe.onset_t
      ]_vars

(* C38 witness: onset declared at lag 8 by the first block; the second block *)
(* was tracked at lag 13 and the reference is still lag 8 of time 1          *)
C38_Witness ==
    /\ ptick = 2 /\ pblk.timestamp = 2
    /\ pe.onset_flag /\ pe.onset_ix = 8 /\ pe.onset_t = 1
    /\ pblk.tunable /\ pblk.ix_best = 13

----------------------------------------------------------------------------
(* Further claims about the driver, checked under SpecDriver *)

(* C39: each tick on which the driver is processing creates one Block whose  *)
(* index is exactly one more than the previous Block's (0 for the first),    *)
(* also when the analysis is skipped for an empty read; when the tick is     *)
(* over the Block's index, data, timestamp and sample rate are as it was     *)
(* created with, whatever the estimators did; nothing else replaces the      *)
(* Block.                                                                    *)
C39_BlockIndexCountsTicks ==
    [][IF dtick' = dtick + 1 /\ mw.processing
       THEN /\ mw'.block # None
            /\ mw'.block[1].index = IF mw.block = None THEN 0 ELSE mw.block[1].index + 1
            /\ mw'.block[1].len = dlog'.n
            /\ mw'.block[1].timestamp = dtick'
            /\ mw'.block[1].samplerate = 1200
       ELSE mw'.block = mw.block
      ]_vars

(* C39 witness: the second tick read nothing and its analysis was skipped;   *)
(* its Block has index 1 all the same                                        *)
C39_Witness ==
    /\ dtick = 2 /\ dlog.n = 0 /\ dlog.calls = <<>>
    /\ mw.block # None /\ mw.block[1].index = 1 /\ mw.block_counter = 2

====
